---- MODULE Spec2Model ----
(***************************************************************************)
(* A model of the grocery optimizer: the record store kept by              *)
(* GroceryManager (grocery.py), the date helpers of utils.py and the       *)
(* analytic queries of ExpenseTracker (expense.py).                        *)
(*                                                                         *)
(* Text that the program compares or parses character by character (date   *)
(* strings) is a sequence of ASCII codes: "2024-01-15" is                   *)
(* <<50,48,50,52,45,48,49,45,49,53>>.  Amounts of money and quantities are *)
(* integers; a quotient the program computes (a percentage, an average) is *)
(* the exact fraction [num, den].                                          *)
(***************************************************************************)
EXTENDS Integers, Sequences, FiniteSets, TLC

VARIABLES
    items,            \* table grocery_items: id -> row
    seq,              \* AUTOINCREMENT high-water mark of grocery_items
    budget_settings,  \* table budget_settings: <<>> or <<row with id 1>>
    call              \* the latest operation and what it returned

vars == <<items, seq, budget_settings, call>>

\* ---------------------------------------------------------------- bounds
MaxId == 2            \* ids the AUTOINCREMENT counter may hand out
MaxRows == 10         \* the same, where a query's LIMIT has to be passed
MaxStoreRows == 3     \* the same, where one product is bought several times

\* ------------------------------------------------------- text and dates
IsDigit(c) == c \in 48..57

\* re.match(r'^\d{4}-\d{2}-\d{2}$', s)
MatchesDatePattern(s) ==
    /\ Len(s) = 10
    /\ \A i \in {1, 2, 3, 4, 6, 7, 9, 10} : IsDigit(s[i])
    /\ s[5] = 45
    /\ s[8] = 45

RECURSIVE ToInt(_, _, _)
ToInt(s, i, j) ==
    IF i > j THEN 0 ELSE ToInt(s, i, j - 1) * 10 + (s[j] - 48)

IsLeap(y) == (y % 4 = 0 /\ y % 100 # 0) \/ y % 400 = 0

DaysInMonth(y, m) ==
    IF m = 2 THEN (IF IsLeap(y) THEN 29 ELSE 28)
    ELSE IF m \in {4, 6, 9, 11} THEN 30 ELSE 31

\* datetime.strptime(s, '%Y-%m-%d') on a string that matches the pattern:
\* the date, or a ValueError for a day that is not on the calendar
strptime(s) ==
    LET y == ToInt(s, 1, 4)
        m == ToInt(s, 6, 7)
        d == ToInt(s, 9, 10)
    IN  IF y >= 1 /\ m \in 1..12 /\ d >= 1 /\ d <= DaysInMonth(y, m)
        THEN [raised |-> FALSE, date |-> <<y, m, d>>]
        ELSE [raised |-> TRUE, date |-> <<0, 0, 0>>]

validate_date(s) ==
    /\ Len(s) > 0
    /\ MatchesDatePattern(s)
    /\ ~strptime(s).raised

\* %Y of the C library's strftime on the Linux builds: the year in decimal
\* without zero padding, so a year below 1000 has fewer than four digits
RECURSIVE year_text(_)
year_text(y) ==
    IF y < 10 THEN << 48 + y >> ELSE Append(year_text(y \div 10), 48 + (y % 10))

\* date.strftime('%Y-%m-%d')
strftime(dt) ==
    LET m == dt[2]
        d == dt[3]
    IN  year_text(dt[1])
        \o << 45, 48 + (m \div 10), 48 + (m % 10), 45,
              48 + (d \div 10), 48 + (d % 10) >>

\* date.toordinal(): days since 0001-01-01, which is day 1
RECURSIVE DaysBeforeMonth(_, _)
DaysBeforeMonth(y, m) ==
    IF m = 1 THEN 0 ELSE DaysBeforeMonth(y, m - 1) + DaysInMonth(y, m - 1)

toordinal(dt) ==
    LET y == dt[1] - 1
    IN  y * 365 + (y \div 4) - (y \div 100) + (y \div 400)
        + DaysBeforeMonth(dt[1], dt[2]) + dt[3]

\* date.weekday(): Monday is 0, Sunday is 6
weekday(dt) == (toordinal(dt) + 6) % 7

PrevDay(dt) ==
    IF dt[3] > 1 THEN <<dt[1], dt[2], dt[3] - 1>>
    ELSE IF dt[2] > 1 THEN <<dt[1], dt[2] - 1, DaysInMonth(dt[1], dt[2] - 1)>>
    ELSE <<dt[1] - 1, 12, 31>>

NextDay(dt) ==
    IF dt[3] < DaysInMonth(dt[1], dt[2]) THEN <<dt[1], dt[2], dt[3] + 1>>
    ELSE IF dt[2] < 12 THEN <<dt[1], dt[2] + 1, 1>>
    ELSE <<dt[1] + 1, 1, 1>>

\* date - timedelta(days=k) and date + timedelta(days=k)
RECURSIVE MinusDays(_, _)
MinusDays(dt, k) == IF k = 0 THEN dt ELSE MinusDays(PrevDay(dt), k - 1)

RECURSIVE PlusDays(_, _)
PlusDays(dt, k) == IF k = 0 THEN dt ELSE PlusDays(NextDay(dt), k - 1)

\* each helper returns [raised, value]: raised for the ValueError
\* "Invalid date format", value the resulting date string
get_week_start_date(target_date) ==
    IF ~validate_date(target_date)
    THEN [raised |-> TRUE, value |-> <<>>]
    ELSE LET date_obj == strptime(target_date).date
             days_since_monday == weekday(date_obj)
         IN  [raised |-> FALSE,
              value |-> strftime(MinusDays(date_obj, days_since_monday))]

get_month_start_date(target_date) ==
    IF ~validate_date(target_date)
    THEN [raised |-> TRUE, value |-> <<>>]
    ELSE LET date_obj == strptime(target_date).date
         IN  [raised |-> FALSE,
              value |-> strftime(<<date_obj[1], date_obj[2], 1>>)]

\* date_obj.replace(year=date_obj.year + 1, month=1, day=1) of the "Calculate
\* month end" block: ValueError "year 10000 is out of range" in December 9999
month_end_raises(target_date) ==
    LET date_obj == strptime(target_date).date
    IN  date_obj[2] = 12 /\ date_obj[1] + 1 > 9999

\* the monthly queries compute their window before their try block: the
\* ValueError of get_month_start_date or of the month end leaves the query
month_window_raises(target_date) ==
    get_month_start_date(target_date).raised \/ month_end_raises(target_date)

\* the "Calculate month end" block the monthly queries repeat
month_end_of(target_date) ==
    LET date_obj == strptime(target_date).date
        next_month == IF date_obj[2] = 12
                      THEN <<date_obj[1] + 1, 1, 1>>
                      ELSE <<date_obj[1], date_obj[2] + 1, 1>>
    IN  strftime(MinusDays(next_month, 1))

\* utils.get_month_end_date: first day of the next month, minus one day
get_month_end_date(target_date) ==
    IF ~validate_date(target_date)
    THEN [raised |-> TRUE, value |-> <<>>]
    ELSE LET date_obj == strptime(target_date).date
         IN  IF date_obj[2] = 12
             THEN IF date_obj[1] + 1 > 9999
                  THEN [raised |-> TRUE, value |-> <<>>]
                  ELSE [raised |-> FALSE,
                        value |-> strftime(MinusDays(<<date_obj[1] + 1, 1, 1>>, 1))]
             ELSE [raised |-> FALSE,
                   value |-> strftime(MinusDays(<<date_obj[1], date_obj[2] + 1, 1>>, 1))]

\* week_end of get_weekly_spending: datetime.strptime(week_start) raises
\* ValueError on a year of fewer than four digits, and + timedelta(days=6)
\* raises OverflowError past 9999-12-31
week_end_raises(week_start) ==
    \/ ~MatchesDatePattern(week_start)
    \/ toordinal(strptime(week_start).date) + 6 > toordinal(<<9999, 12, 31>>)

week_window_raises(target_date) ==
    \/ get_week_start_date(target_date).raised
    \/ week_end_raises(get_week_start_date(target_date).value)

week_end_of(week_start) == strftime(PlusDays(strptime(week_start).date, 6))

\* SQLite's comparison of two TEXT values (BINARY collation): a <= b
TextLE(a, b) ==
    LET n == IF Len(a) < Len(b) THEN Len(a) ELSE Len(b)
        differ == { i \in 1..n : a[i] # b[i] }
    IN  IF differ = {} THEN Len(a) <= Len(b)
        ELSE LET k == CHOOSE i \in differ : \A j \in differ : i <= j
             IN  a[k] < b[k]

\* ------------------------------------------------------------ the store
\* str.strip() on the names the model uses: a string of whitespace becomes ""
strip(s) == IF s \in {"", " ", "  ", "\t"} THEN "" ELSE s

\* post_init accepting a quantity of 0
post_init_from0(item) ==
    IF item.quantity < 0 THEN "Quantity must be positive"
    ELSE IF item.price_per_unit < 0 THEN "Price per unit cannot be negative"
    ELSE IF strip(item.name) = "" THEN "Item name cannot be empty"
    ELSE IF strip(item.category) = "" THEN "Category cannot be empty"
    ELSE IF strip(item.unit) = "" THEN "Unit cannot be empty"
    ELSE IF strip(item.store_name) = "" THEN "Store name cannot be empty"
    ELSE "ok"

\* GroceryItem.__post_init__: "ok", or the message of the ValueError
post_init(item) ==
    IF item.quantity <= 0 THEN "Quantity must be positive"
    ELSE IF item.price_per_unit < 0 THEN "Price per unit cannot be negative"
    ELSE IF strip(item.name) = "" THEN "Item name cannot be empty"
    ELSE IF strip(item.category) = "" THEN "Category cannot be empty"
    ELSE IF strip(item.unit) = "" THEN "Unit cannot be empty"
    ELSE IF strip(item.store_name) = "" THEN "Store name cannot be empty"
    ELSE "ok"

\* GroceryItem.total_cost
total_cost(item) == item.quantity * item.price_per_unit

\* the row before any statement has run: no table has a row
Init ==
    /\ items = << >>
    /\ seq = 0
    /\ budget_settings = << >>
    /\ call = [op |-> "init", arg |-> << >>, ret |-> "None"]

\* add_item_upto with the id of a table without AUTOINCREMENT: one more
\* than the largest id stored
add_item_max_rowid(item, max_id) ==
    IF post_init(item) # "ok"
    THEN /\ call' = [op |-> "GroceryItem", arg |-> item, ret |-> "ValueError",
                     error |-> post_init(item)]
         /\ UNCHANGED <<items, seq, budget_settings>>
    ELSE LET id == IF DOMAIN items = {} THEN 1
                   ELSE 1 + CHOOSE i \in DOMAIN items : \A j \in DOMAIN items : i >= j
         IN  /\ seq < max_id
             /\ seq' = seq + 1
             /\ items' = [i \in DOMAIN items \cup {id} |->
                             IF i = id THEN item ELSE items[i]]
             /\ call' = [op |-> "add_item", arg |-> item, ret |-> id]
             /\ UNCHANGED budget_settings

\* GroceryItem(**fields) followed by GroceryManager.add_item(item)
\* max_id bounds the ids the AUTOINCREMENT counter hands out
add_item_upto(item, max_id) ==
    IF post_init(item) # "ok"
    THEN /\ call' = [op |-> "GroceryItem", arg |-> item, ret |-> "ValueError",
                     error |-> post_init(item)]
         /\ UNCHANGED <<items, seq, budget_settings>>
    ELSE /\ seq < max_id
         /\ seq' = seq + 1
         /\ items' = [i \in DOMAIN items \cup {seq + 1} |->
                         IF i = seq + 1 THEN item ELSE items[i]]
         /\ call' = [op |-> "add_item", arg |-> item, ret |-> seq + 1]
         /\ UNCHANGED budget_settings

add_item(item) == add_item_upto(item, MaxId)

\* update_row leaving is_purchased and purchase_date of the row as stored
update_row_keeping_purchase(item_id, item) ==
    IF item_id = 0
    THEN /\ call' = [op |-> "update_item", arg |-> item_id, item |-> item,
                     ret |-> "ValueError"]
         /\ UNCHANGED <<items, seq, budget_settings>>
    ELSE /\ items' = [i \in DOMAIN items |->
                         IF i = item_id
                         THEN [item EXCEPT !.is_purchased = items[i].is_purchased,
                                           !.purchase_date = items[i].purchase_date]
                         ELSE items[i]]
         /\ call' = [op |-> "update_item", arg |-> item_id, item |-> item,
                     ret |-> IF item_id \in DOMAIN items THEN "True" ELSE "False"]
         /\ UNCHANGED <<seq, budget_settings>>

\* the UPDATE statement of update_item; item_id 0 stands for None
update_row(item_id, item) ==
    IF item_id = 0
    THEN /\ call' = [op |-> "update_item", arg |-> item_id, item |-> item,
                     ret |-> "ValueError"]
         /\ UNCHANGED <<items, seq, budget_settings>>
    ELSE /\ items' = [i \in DOMAIN items |-> IF i = item_id THEN item ELSE items[i]]
         /\ call' = [op |-> "update_item", arg |-> item_id, item |-> item,
                     ret |-> IF item_id \in DOMAIN items THEN "True" ELSE "False"]
         /\ UNCHANGED <<seq, budget_settings>>

\* GroceryItem(id=item_id, **fields) followed by GroceryManager.update_item
update_item(item_id, item) ==
    IF post_init(item) # "ok"
    THEN /\ call' = [op |-> "GroceryItem", arg |-> item, ret |-> "ValueError",
                     error |-> post_init(item)]
         /\ UNCHANGED <<items, seq, budget_settings>>
    ELSE update_row(item_id, item)

\* GroceryManager.get_item_by_id: the row as a GroceryItem, None, or the
\* ValueError of the constructor
get_item_by_id(item_id) ==
    IF item_id \notin DOMAIN items THEN [ret |-> "None"]
    ELSE IF post_init(items[item_id]) # "ok" THEN [ret |-> "ValueError"]
    ELSE [ret |-> "item", item |-> items[item_id]]

\* GroceryManager.get_all_items: one GroceryItem per row (value, each with
\* its id), or the ValueError of the constructor for a row it rejects; the
\* order of the list (created_at DESC) is left out
get_all_items ==
    IF \E i \in DOMAIN items : post_init(items[i]) # "ok"
    THEN [raised |-> TRUE, value |-> {}]
    ELSE [raised |-> FALSE,
          value |-> { [id |-> i, item |-> items[i]] : i \in DOMAIN items }]

\* parse_quantity and parse_price of the edit prompts accept any number
edit_accepts(in) ==
    /\ strip(in.name) # ""
    /\ strip(in.category) # ""
    /\ strip(in.unit) # ""
    /\ strip(in.store_name) # ""

\* GroceryOptimizerCLI.edit_item: fetch, prompt, assign the fields, update
edit_item(item_id, in) ==
    LET got == get_item_by_id(item_id)
    IN  IF got.ret # "item" \/ ~edit_accepts(in)
        THEN /\ call' = [op |-> "edit_item", arg |-> item_id, ret |-> "rejected"]
             /\ UNCHANGED <<items, seq, budget_settings>>
        ELSE LET item == [got.item EXCEPT !.name = in.name,
                                          !.category = in.category,
                                          !.quantity = in.quantity,
                                          !.unit = in.unit,
                                          !.price_per_unit = in.price_per_unit,
                                          !.store_name = in.store_name,
                                          !.notes = in.notes]
             IN  /\ items' = [items EXCEPT ![item_id] = item]
                 /\ call' = [op |-> "edit_item", arg |-> item_id, ret |-> "True"]
                 /\ UNCHANGED <<seq, budget_settings>>

delete_item(item_id) ==
    /\ items' = [i \in DOMAIN items \ {item_id} |-> items[i]]
    /\ call' = [op |-> "delete_item", arg |-> item_id,
                ret |-> IF item_id \in DOMAIN items THEN "True" ELSE "False"]
    /\ UNCHANGED <<seq, budget_settings>>

\* SET is_purchased = TRUE, purchase_date = ? on one row
purchased_row(row, purchase_date) ==
    [row EXCEPT !.is_purchased = TRUE, !.purchase_date = purchase_date]

\* SET is_purchased = FALSE, purchase_date = '' on one row
unpurchased_row(row) ==
    [row EXCEPT !.is_purchased = FALSE, !.purchase_date = << >>]

mark_as_purchased(item_id, purchase_date) ==
    /\ items' = [i \in DOMAIN items |->
                    IF i = item_id THEN purchased_row(items[i], purchase_date)
                    ELSE items[i]]
    /\ call' = [op |-> "mark_as_purchased", arg |-> item_id,
                purchase_date |-> purchase_date,
                ret |-> IF item_id \in DOMAIN items THEN "True" ELSE "False"]
    /\ UNCHANGED <<seq, budget_settings>>

mark_as_unpurchased(item_id) ==
    /\ items' = [i \in DOMAIN items |->
                    IF i = item_id THEN unpurchased_row(items[i]) ELSE items[i]]
    /\ call' = [op |-> "mark_as_unpurchased", arg |-> item_id,
                ret |-> IF item_id \in DOMAIN items THEN "True" ELSE "False"]
    /\ UNCHANGED <<seq, budget_settings>>

\* INSERT OR REPLACE INTO budget_settings (id, weekly_budget, updated_at):
\* the row with id 1 is replaced, a column the statement does not name
\* takes its DEFAULT
replace_weekly(budget) == << [weekly_budget |-> budget, monthly_budget |-> 0] >>

replace_monthly(budget) == << [weekly_budget |-> 0, monthly_budget |-> budget] >>

\* set_weekly_budget without the check of the sign
set_weekly_budget_unchecked(budget) ==
    /\ budget_settings' = replace_weekly(budget)
    /\ call' = [op |-> "set_weekly_budget", arg |-> budget, ret |-> "True"]
    /\ UNCHANGED <<items, seq>>

set_weekly_budget(budget) ==
    IF budget < 0
    THEN /\ call' = [op |-> "set_weekly_budget", arg |-> budget, ret |-> "ValueError"]
         /\ UNCHANGED <<items, seq, budget_settings>>
    ELSE /\ budget_settings' = replace_weekly(budget)
         /\ call' = [op |-> "set_weekly_budget", arg |-> budget, ret |-> "True"]
         /\ UNCHANGED <<items, seq>>

set_monthly_budget(budget) ==
    IF budget < 0
    THEN /\ call' = [op |-> "set_monthly_budget", arg |-> budget, ret |-> "ValueError"]
         /\ UNCHANGED <<items, seq, budget_settings>>
    ELSE /\ budget_settings' = replace_monthly(budget)
         /\ call' = [op |-> "set_monthly_budget", arg |-> budget, ret |-> "True"]
         /\ UNCHANGED <<items, seq>>

\* row[0] if row else 0.0
get_weekly_budget ==
    IF Len(budget_settings) > 0 THEN budget_settings[1].weekly_budget ELSE 0

get_monthly_budget ==
    IF Len(budget_settings) > 0 THEN budget_settings[1].monthly_budget ELSE 0

\* ------------------------------------------------------------ analytics
\* a quotient of two amounts, kept exact
Ratio(n, d) == [num |-> n, den |-> d]

Zero == Ratio(0, 1)

RatEq(a, b) == a.num * b.den = b.num * a.den

\* a >= k for a ratio with a positive denominator
RatGE(a, k) == a.num >= k * a.den

RatLT(a, k) == a.num < k * a.den

\* in_window with the end of the window left out
in_window_open(start, end) ==
    { i \in DOMAIN items :
        /\ items[i].is_purchased
        /\ TextLE(start, items[i].purchase_date)
        /\ TextLE(items[i].purchase_date, end)
        /\ items[i].purchase_date # end }

\* WHERE is_purchased = TRUE AND purchase_date >= ? AND purchase_date <= ?
in_window(start, end) ==
    { i \in DOMAIN items :
        /\ items[i].is_purchased
        /\ TextLE(start, items[i].purchase_date)
        /\ TextLE(items[i].purchase_date, end) }

\* SUM(quantity * price_per_unit) over the rows of a non-empty set
RECURSIVE sql_sum(_)
sql_sum(ids) ==
    IF ids = {} THEN 0
    ELSE LET i == CHOOSE x \in ids : TRUE
         IN  items[i].quantity * items[i].price_per_unit + sql_sum(ids \ {i})

RECURSIVE sum_of_prices(_)
sum_of_prices(ids) ==
    IF ids = {} THEN 0
    ELSE LET i == CHOOSE x \in ids : TRUE
         IN  items[i].price_per_unit + sum_of_prices(ids \ {i})

\* sql_avg taken over price_per_unit alone
sql_avg_price(ids) == Ratio(sum_of_prices(ids), Cardinality(ids))

\* AVG(quantity * price_per_unit) over the rows of a non-empty set
sql_avg(ids) == Ratio(sql_sum(ids), Cardinality(ids))

\* result[0] if result[0] is not None else 0.0
sum_or_zero(ids) == IF ids = {} THEN 0 ELSE sql_sum(ids)

get_weekly_spending(target_date) ==
    LET ws == get_week_start_date(target_date)
    IN  IF week_window_raises(target_date) THEN [raised |-> TRUE, value |-> 0]
        ELSE [raised |-> FALSE,
              value |-> sum_or_zero(in_window(ws.value, week_end_of(ws.value)))]

\* the rows the monthly queries select: month_start .. month_end
month_rows(target_date) ==
    in_window(get_month_start_date(target_date).value, month_end_of(target_date))

\* get_monthly_spending summing every purchased row, whatever its date
get_monthly_spending_any_date(target_date) ==
    IF month_window_raises(target_date)
    THEN [raised |-> TRUE, value |-> 0]
    ELSE [raised |-> FALSE,
          value |-> sum_or_zero({ i \in DOMAIN items : items[i].is_purchased })]

get_monthly_spending(target_date) ==
    IF month_window_raises(target_date)
    THEN [raised |-> TRUE, value |-> 0]
    ELSE [raised |-> FALSE, value |-> sum_or_zero(month_rows(target_date))]

\* order_by_total_spent with ORDER BY total_spent ASC
order_by_total_spent_asc(S) ==
    CHOOSE f \in [1..Cardinality(S) -> S] :
        /\ \A i, j \in 1..Cardinality(S) : i # j => f[i] # f[j]
        /\ \A i, j \in 1..Cardinality(S) :
              i < j => f[i].total_spent <= f[j].total_spent

\* ORDER BY total_spent DESC of the rows of a set; the order of ties is
\* SQLite's to choose
order_by_total_spent(S) ==
    CHOOSE f \in [1..Cardinality(S) -> S] :
        /\ \A i, j \in 1..Cardinality(S) : i # j => f[i] # f[j]
        /\ \A i, j \in 1..Cardinality(S) :
              i < j => f[i].total_spent >= f[j].total_spent

RECURSIVE SeqSum(_, _)
SeqSum(f, n) == IF n = 0 THEN 0 ELSE f[n].total_spent + SeqSum(f, n - 1)

\* percentage_of without the "if total_spent > 0" guard
percentage_of_unguarded(spent, total_spent) == Ratio(spent * 100, total_spent)

\* percentage = (spent / total_spent * 100) if total_spent > 0 else 0
percentage_of(spent, total_spent) ==
    IF total_spent > 0 THEN Ratio(spent * 100, total_spent) ELSE Zero

\* SELECT key, SUM(...), COUNT(*), AVG(...) ... GROUP BY key, for the
\* rows ids and their keys key[i]
group_rows(ids, key) ==
    { [key |-> k,
       total_spent |-> sql_sum({ i \in ids : key[i] = k }),
       item_count |-> Cardinality({ i \in ids : key[i] = k }),
       average_cost |-> sql_avg({ i \in ids : key[i] = k })]
      : k \in { key[i] : i \in ids } }

\* ORDER BY total_spent DESC, total_spent = sum(row[1] for row in rows) and
\* the loop that adds percentage_of_total to each row
group_summaries(ids, key) ==
    LET rows == group_rows(ids, key)
        sorted == order_by_total_spent(rows)
        total_spent == SeqSum(sorted, Cardinality(rows))
    IN  [n \in 1..Cardinality(rows) |->
            [key |-> sorted[n].key,
             total_spent |-> sorted[n].total_spent,
             item_count |-> sorted[n].item_count,
             average_cost |-> sorted[n].average_cost,
             percentage_of_total |->
                 percentage_of(sorted[n].total_spent, total_spent)]]

\* the column each query groups by
category_of(ids) == [i \in ids |-> items[i].category]

store_of(ids) == [i \in ids |-> items[i].store_name]

\* value: the list of CategorySummary, key being its category
get_spending_by_category(target_date) ==
    IF month_window_raises(target_date)
    THEN [raised |-> TRUE, value |-> << >>]
    ELSE [raised |-> FALSE,
          value |-> group_summaries(month_rows(target_date),
                                   category_of(month_rows(target_date)))]

\* value: the list of StoreSummary, key being its store_name
get_spending_by_store(target_date) ==
    IF month_window_raises(target_date)
    THEN [raised |-> TRUE, value |-> << >>]
    ELSE [raised |-> FALSE,
          value |-> group_summaries(month_rows(target_date),
                                   store_of(month_rows(target_date)))]

\* SELECT monthly_budget FROM budget_settings WHERE id = 1, then
\* budget_row[0] if budget_row else 0.0
read_monthly_budget ==
    IF Len(budget_settings) > 0 THEN budget_settings[1].monthly_budget ELSE 0

read_weekly_budget ==
    IF Len(budget_settings) > 0 THEN budget_settings[1].weekly_budget ELSE 0

\* budget_fields with the subtraction the other way round
budget_fields_overspend(monthly_budget, total_spent) ==
    [budget_remaining |-> total_spent - monthly_budget,
     budget_used_percentage |->
         IF monthly_budget > 0 THEN Ratio(total_spent * 100, monthly_budget)
         ELSE Zero]

\* budget_remaining and budget_used_percentage of get_expense_summary
budget_fields(monthly_budget, total_spent) ==
    [budget_remaining |-> monthly_budget - total_spent,
     budget_used_percentage |->
         IF monthly_budget > 0 THEN Ratio(total_spent * 100, monthly_budget)
         ELSE Zero]

\* get_expense_summary with the two ORDER BY total_cost queries run over
\* every purchased row, whatever its date
get_expense_summary_extremes_of_all(target_date) ==
    IF month_window_raises(target_date)
    THEN [raised |-> TRUE]
    ELSE LET ids == month_rows(target_date)
             cost(i) == items[i].quantity * items[i].price_per_unit
             \* ORDER BY total_cost DESC LIMIT 1 and ORDER BY total_cost ASC LIMIT 1
             all == { i \in DOMAIN items : items[i].is_purchased }
             most == CHOOSE i \in all : \A j \in all : cost(i) >= cost(j)
             least == CHOOSE i \in all : \A j \in all : cost(i) <= cost(j)
             total_spent == sum_or_zero(ids)
             budget == budget_fields(read_monthly_budget, total_spent)
         IN  [raised |-> FALSE,
              total_spent |-> total_spent,
              total_items |-> Cardinality(ids),
              average_item_cost |->
                  IF ids = {} THEN Zero ELSE sql_avg(ids),
              most_expensive_item |-> IF ids = {} THEN "" ELSE items[most].name,
              most_expensive_cost |-> IF ids = {} THEN 0 ELSE cost(most),
              cheapest_item |-> IF ids = {} THEN "" ELSE items[least].name,
              cheapest_cost |-> IF ids = {} THEN 0 ELSE cost(least),
              budget_remaining |-> budget.budget_remaining,
              budget_used_percentage |-> budget.budget_used_percentage]

get_expense_summary(target_date) ==
    IF month_window_raises(target_date)
    THEN [raised |-> TRUE]
    ELSE LET ids == month_rows(target_date)
             cost(i) == items[i].quantity * items[i].price_per_unit
             \* ORDER BY total_cost DESC LIMIT 1 and ORDER BY total_cost ASC LIMIT 1
             most == CHOOSE i \in ids : \A j \in ids : cost(i) >= cost(j)
             least == CHOOSE i \in ids : \A j \in ids : cost(i) <= cost(j)
             total_spent == sum_or_zero(ids)
             budget == budget_fields(read_monthly_budget, total_spent)
         IN  [raised |-> FALSE,
              total_spent |-> total_spent,
              total_items |-> Cardinality(ids),
              average_item_cost |->
                  IF ids = {} THEN Zero ELSE sql_avg(ids),
              most_expensive_item |-> IF ids = {} THEN "" ELSE items[most].name,
              most_expensive_cost |-> IF ids = {} THEN 0 ELSE cost(most),
              cheapest_item |-> IF ids = {} THEN "" ELSE items[least].name,
              cheapest_cost |-> IF ids = {} THEN 0 ELSE cost(least),
              budget_remaining |-> budget.budget_remaining,
              budget_used_percentage |-> budget.budget_used_percentage]

\* period_alerts with the warning threshold taken as exclusive
period_alerts_above80(period, budget, spending) ==
    LET used == Ratio(spending * 100, budget)
    IN  IF RatGE(used, 100)
        THEN << [alert_type |-> "exceeded", message |-> period,
                 amount |-> spending - budget, percentage |-> used] >>
        ELSE IF ~RatLT(used, 81)
        THEN << [alert_type |-> "warning", message |-> period,
                 amount |-> spending, percentage |-> used] >>
        ELSE << >>

\* the exceeded / warning branches for one period of get_budget_alerts;
\* message keeps the fixed head of the alert's message
period_alerts(period, budget, spending) ==
    LET used == Ratio(spending * 100, budget)
    IN  IF RatGE(used, 100)
        THEN << [alert_type |-> "exceeded", message |-> period,
                 amount |-> spending - budget, percentage |-> used] >>
        ELSE IF RatGE(used, 80)
        THEN << [alert_type |-> "warning", message |-> period,
                 amount |-> spending, percentage |-> used] >>
        ELSE << >>

\* ORDER BY price_per_unit DESC of the rows ids; the order of rows with the
\* same price is SQLite's to choose
RECURSIVE order_by_price_desc(_)
order_by_price_desc(ids) ==
    IF ids = {} THEN << >>
    ELSE LET top == CHOOSE i \in ids :
                       \A j \in ids : items[i].price_per_unit >= items[j].price_per_unit
         IN  <<top>> \o order_by_price_desc(ids \ {top})

\* LIMIT n
limit(rows, n) == SubSeq(rows, 1, IF Len(rows) < n THEN Len(rows) ELSE n)

\* expensive_items with the threshold included
expensive_items_from10 ==
    limit(order_by_price_desc({ i \in DOMAIN items :
              items[i].is_purchased /\ items[i].price_per_unit >= 10 }), 3)

\* SELECT ... WHERE is_purchased = TRUE AND price_per_unit > 10.0
\* ORDER BY price_per_unit DESC LIMIT 3
expensive_items ==
    limit(order_by_price_desc({ i \in DOMAIN items :
              items[i].is_purchased /\ items[i].price_per_unit > 10 }), 3)

suggestion_alerts ==
    IF Len(expensive_items) > 0
    THEN << [alert_type |-> "suggestion", message |-> "Consider cheaper alternatives",
             amount |-> 0, percentage |-> Zero, listed |-> expensive_items] >>
    ELSE << >>

\* the weekly check sits inside "if monthly_budget > 0"
budget_checks(target_date, monthly_budget, weekly_budget) ==
    IF monthly_budget > 0
    THEN IF \/ get_monthly_spending(target_date).raised
            \/ weekly_budget > 0 /\ get_weekly_spending(target_date).raised
         THEN [raised |-> TRUE, value |-> << >>]
         ELSE [raised |-> FALSE,
               value |->
                   period_alerts("Monthly budget", monthly_budget,
                                 get_monthly_spending(target_date).value)
                   \o (IF weekly_budget > 0
                       THEN period_alerts("Weekly budget", weekly_budget,
                                          get_weekly_spending(target_date).value)
                       ELSE << >>)]
    ELSE [raised |-> FALSE, value |-> << >>]

\* get_budget_alerts appending the suggestion before the budget checks
get_budget_alerts_suggestion_first(target_date) ==
    LET checks == budget_checks(target_date, read_monthly_budget, read_weekly_budget)
    IN  IF checks.raised THEN [raised |-> TRUE, value |-> << >>]
        ELSE [raised |-> FALSE, value |-> suggestion_alerts \o checks.value]

get_budget_alerts(target_date) ==
    LET checks == budget_checks(target_date, read_monthly_budget, read_weekly_budget)
    IN  IF checks.raised THEN [raised |-> TRUE, value |-> << >>]
        ELSE [raised |-> FALSE, value |-> checks.value \o suggestion_alerts]

\* WHERE is_purchased = TRUE AND price_per_unit > (SELECT AVG(price_per_unit)
\* * 1.5 FROM grocery_items WHERE is_purchased = TRUE): p > sum / n * 1.5,
\* kept exact as 2 * n * p > 3 * sum; no row when nothing is purchased
above_average_price ==
    LET purchased == { i \in DOMAIN items : items[i].is_purchased }
        n == Cardinality(purchased)
        sum == sum_of_prices(purchased)
    IN  { i \in purchased : 2 * n * items[i].price_per_unit > 3 * sum }

\* the dicts of type 'expensive_item', one per row of the query
RECURSIVE expensive_item_suggestions(_)
expensive_item_suggestions(rows) ==
    IF rows = << >> THEN << >>
    ELSE << [type |-> "expensive_item",
             item |-> items[Head(rows)].name,
             price |-> items[Head(rows)].price_per_unit,
             category |-> items[Head(rows)].category,
             store |-> items[Head(rows)].store_name] >>
         \o expensive_item_suggestions(Tail(rows))

\* SELECT category, SUM(quantity * price_per_unit) as total_spent ...
\* WHERE is_purchased = TRUE GROUP BY category
category_totals ==
    LET purchased == { i \in DOMAIN items : items[i].is_purchased }
    IN  { [category |-> c,
           total_spent |-> sql_sum({ i \in purchased : items[i].category = c })]
          : c \in { items[i].category : i \in purchased } }

RECURSIVE sum_of_totals(_)
sum_of_totals(rows) ==
    IF rows = {} THEN 0
    ELSE LET r == CHOOSE x \in rows : TRUE
         IN  r.total_spent + sum_of_totals(rows \ {r})

\* HAVING total_spent > (SELECT AVG(category_total) * 1.2 FROM (...)):
\* t > sum / k * 1.2, kept exact as 5 * k * t > 6 * sum
high_spending_categories ==
    LET k == Cardinality(category_totals)
        sum == sum_of_totals(category_totals)
    IN  { r \in category_totals : 5 * k * r.total_spent > 6 * sum }

\* the dicts of type 'high_spending_category', ORDER BY total_spent DESC
category_suggestions ==
    LET sorted == order_by_total_spent(high_spending_categories)
    IN  [n \in 1..Cardinality(high_spending_categories) |->
            [type |-> "high_spending_category",
             category |-> sorted[n].category,
             total_spent |-> sorted[n].total_spent]]

\* the list of suggestions: expensive items (ORDER BY price_per_unit DESC
\* LIMIT 5), then high-spending categories
get_cost_optimization_suggestions ==
    expensive_item_suggestions(limit(order_by_price_desc(above_average_price), 5))
    \o category_suggestions

\* the characters of the store names the model uses
store_text(s) ==
    CASE s = "Walmart" -> <<87, 97, 108, 109, 97, 114, 116>>
      [] s = "Costco" -> <<67, 111, 115, 116, 99, 111>>
      [] s = "Aldi, Main St" ->
             <<65, 108, 100, 105, 44, 32, 77, 97, 105, 110, 32, 83, 116>>
      [] s = "Shop:East" -> <<83, 104, 111, 112, 58, 69, 97, 115, 116>>
      [] OTHER -> <<63>>

RECURSIVE DigitsOf(_)
DigitsOf(n) ==
    IF n < 10 THEN <<48 + n>> ELSE DigitsOf(n \div 10) \o <<48 + (n % 10)>>

\* SQLite's text of a REAL that holds a whole amount: 5.0 is "5.0"
real_text(p) ==
    (IF p < 0 THEN <<45>> \o DigitsOf(0 - p) ELSE DigitsOf(p)) \o <<46, 48>>

\* store_name || ':' || price_per_unit
store_price_text(i) ==
    store_text(items[i].store_name) \o <<58>> \o real_text(items[i].price_per_unit)

\* the rows of one (name, category) group, in the order SQLite visits them
RECURSIVE rows_of_group(_, _, _)
rows_of_group(order, name, category) ==
    IF order = << >> THEN << >>
    ELSE (IF items[Head(order)].name = name /\ items[Head(order)].category = category
          THEN <<Head(order)>> ELSE << >>)
         \o rows_of_group(Tail(order), name, category)

\* GROUP_CONCAT(store_name || ':' || price_per_unit): joined with ','
RECURSIVE group_concat(_)
group_concat(rows) ==
    IF Len(rows) = 1 THEN store_price_text(rows[1])
    ELSE store_price_text(rows[1]) \o <<44>> \o group_concat(Tail(rows))

\* str.split(sep)
RECURSIVE split(_, _)
split(s, sep) ==
    IF \A i \in 1..Len(s) : s[i] # sep THEN <<s>>
    ELSE LET k == CHOOSE i \in 1..Len(s) :
                     s[i] = sep /\ \A j \in 1..(i - 1) : s[j] # sep
         IN  <<SubSeq(s, 1, k - 1)>> \o split(SubSeq(s, k + 1, Len(s)), sep)

\* float(text) for the decimal texts SQLite writes: [raised, value]; the
\* fraction of a whole amount is 0
float_of(t) ==
    LET negative == Len(t) > 0 /\ t[1] = 45
        body == IF negative THEN Tail(t) ELSE t
        parts == split(body, 46)
        digits == parts[1] \o (IF Len(parts) = 2 THEN parts[2] ELSE << >>)
        n == ToInt(parts[1], 1, Len(parts[1]))
    IN  IF Len(parts) <= 2 /\ Len(digits) > 0
           /\ \A i \in 1..Len(digits) : IsDigit(digits[i])
        THEN [raised |-> FALSE, value |-> IF negative THEN 0 - n ELSE n]
        ELSE [raised |-> TRUE, value |-> 0]

\* store, price = store_price.split(':') and float(price) for each piece:
\* a piece that does not unpack into two raises ValueError
RECURSIVE parse_store_prices(_)
parse_store_prices(pieces) ==
    IF pieces = << >> THEN [raised |-> FALSE, value |-> << >>]
    ELSE LET pair == split(Head(pieces), 58)
             rest == parse_store_prices(Tail(pieces))
         IN  IF Len(pair) # 2 \/ rest.raised THEN [raised |-> TRUE, value |-> << >>]
             ELSE IF float_of(pair[2]).raised THEN [raised |-> TRUE, value |-> << >>]
             ELSE [raised |-> FALSE,
                   value |-> <<[store |-> pair[1], price |-> float_of(pair[2]).value]>>
                             \o rest.value]

\* store_prices.sort(key=lambda x: x[1]): ascending by price, stable
sort_by_price(store_prices) ==
    LET n == Len(store_prices)
        p == CHOOSE f \in [1..n -> 1..n] :
                /\ \A i, j \in 1..n : i # j => f[i] # f[j]
                /\ \A i, j \in 1..n : i < j =>
                      \/ store_prices[f[i]].price < store_prices[f[j]].price
                      \/ /\ store_prices[f[i]].price = store_prices[f[j]].price
                         /\ f[i] < f[j]
    IN  [i \in 1..n |-> store_prices[p[i]]]

\* the dict appended to comparisons, from the sorted store_prices
comparison_entry(name, category, sorted) ==
    LET cheapest == sorted[1]
        most_expensive == sorted[Len(sorted)]
        savings == most_expensive.price - cheapest.price
    IN  [item |-> name,
         category |-> category,
         cheapest_store |-> cheapest.store,
         cheapest_price |-> cheapest.price,
         most_expensive_store |-> most_expensive.store,
         most_expensive_price |-> most_expensive.price,
         potential_savings |-> savings,
         savings_percentage |->
             IF most_expensive.price > 0
             THEN Ratio(savings * 100, most_expensive.price) ELSE Zero]

\* WHERE is_purchased = TRUE GROUP BY name, category
\* HAVING COUNT(DISTINCT store_name) > 1: the (name, category) pairs kept
multi_store_items ==
    LET purchased == { i \in DOMAIN items : items[i].is_purchased }
    IN  { k \in { <<items[i].name, items[i].category>> : i \in purchased } :
            Cardinality({ items[i].store_name :
                            i \in { j \in purchased :
                                      <<items[j].name, items[j].category>> = k } }) > 1 }

\* get_store_comparison, order being the order in which SQLite visits the
\* purchased rows; value is the set of the dicts returned (their ORDER BY
\* name is left out); raised is the ValueError of the unpacking
get_store_comparison(order) ==
    LET pieces(k) == split(group_concat(rows_of_group(order, k[1], k[2])), 44)
        parsed(k) == parse_store_prices(pieces(k))
    IN  IF \E k \in multi_store_items : parsed(k).raised
        THEN [raised |-> TRUE, value |-> {}]
        ELSE [raised |-> FALSE,
              value |-> { comparison_entry(k[1], k[2], sort_by_price(parsed(k).value)) :
                            k \in { m \in multi_store_items :
                                      Len(parsed(m).value) > 1 } }]

\* the orders in which the purchased rows can be visited
visit_orders ==
    LET purchased == { i \in DOMAIN items : items[i].is_purchased }
    IN  { f \in [1..Cardinality(purchased) -> purchased] :
            \A i, j \in 1..Cardinality(purchased) : i # j => f[i] # f[j] }

\* ------------------------------------------- analytics, the store failing
\* Each query below is the query above with one of its reads (fail_at, or
\* "none") raising sqlite3.Error; the result is [raised, failure, value]:
\* raised for the ValueError of an invalid date, failure for "the read
\* fail_at was reached and failed", value for what the call returned.

\* except sqlite3.Error: return 0.0
get_weekly_spending_failing(target_date, fail_at) ==
    IF week_window_raises(target_date)
    THEN [raised |-> TRUE, failure |-> FALSE, value |-> 0]
    ELSE IF fail_at = "weekly_spending"
    THEN [raised |-> FALSE, failure |-> TRUE, value |-> 0]
    ELSE [raised |-> FALSE, failure |-> FALSE,
          value |-> get_weekly_spending(target_date).value]

get_monthly_spending_failing(target_date, fail_at) ==
    IF month_window_raises(target_date)
    THEN [raised |-> TRUE, failure |-> FALSE, value |-> 0]
    ELSE IF fail_at = "monthly_spending"
    THEN [raised |-> FALSE, failure |-> TRUE, value |-> 0]
    ELSE [raised |-> FALSE, failure |-> FALSE,
          value |-> get_monthly_spending(target_date).value]

\* except sqlite3.Error: return []
get_spending_by_category_failing(target_date, fail_at) ==
    IF month_window_raises(target_date)
    THEN [raised |-> TRUE, failure |-> FALSE, value |-> << >>]
    ELSE IF fail_at = "by_category"
    THEN [raised |-> FALSE, failure |-> TRUE, value |-> << >>]
    ELSE [raised |-> FALSE, failure |-> FALSE,
          value |-> get_spending_by_category(target_date).value]

get_spending_by_store_failing(target_date, fail_at) ==
    IF month_window_raises(target_date)
    THEN [raised |-> TRUE, failure |-> FALSE, value |-> << >>]
    ELSE IF fail_at = "by_store"
    THEN [raised |-> FALSE, failure |-> TRUE, value |-> << >>]
    ELSE [raised |-> FALSE, failure |-> FALSE,
          value |-> get_spending_by_store(target_date).value]

\* ExpenseSummary(): every field at its default
default_summary ==
    [raised |-> FALSE,
     total_spent |-> 0,
     total_items |-> 0,
     average_item_cost |-> Zero,
     most_expensive_item |-> "",
     most_expensive_cost |-> 0,
     cheapest_item |-> "",
     cheapest_cost |-> 0,
     budget_remaining |-> 0,
     budget_used_percentage |-> Zero]

\* the four reads of get_expense_summary share one try block
get_expense_summary_failing(target_date, fail_at) ==
    IF month_window_raises(target_date)
    THEN [raised |-> TRUE, failure |-> FALSE, value |-> default_summary]
    ELSE IF fail_at \in {"basic_stats", "most_expensive", "cheapest", "monthly_budget"}
    THEN [raised |-> FALSE, failure |-> TRUE, value |-> default_summary]
    ELSE [raised |-> FALSE, failure |-> FALSE,
          value |-> get_expense_summary(target_date)]

\* get_budget_alerts: alerts is filled read by read and returned after the
\* except clause with what it holds by then; get_monthly_spending and
\* get_weekly_spending catch the failure of their own read and return 0.0
get_budget_alerts_failing(target_date, fail_at) ==
    IF fail_at = "monthly_budget"
    THEN [raised |-> FALSE, failure |-> TRUE, value |-> << >>]
    ELSE IF read_monthly_budget > 0
    THEN IF \/ month_window_raises(target_date)
            \/ /\ fail_at # "weekly_budget"
               /\ read_weekly_budget > 0
               /\ week_window_raises(target_date)
         THEN [raised |-> TRUE, failure |-> FALSE, value |-> << >>]
         ELSE LET monthly ==
                      period_alerts("Monthly budget", read_monthly_budget,
                          get_monthly_spending_failing(target_date, fail_at).value)
                  weekly ==
                      IF read_weekly_budget > 0
                      THEN period_alerts("Weekly budget", read_weekly_budget,
                               get_weekly_spending_failing(target_date, fail_at).value)
                      ELSE << >>
              IN  IF fail_at = "weekly_budget"
                  THEN [raised |-> FALSE, failure |-> TRUE, value |-> monthly]
                  ELSE IF fail_at = "expensive_items"
                  THEN [raised |-> FALSE, failure |-> TRUE, value |-> monthly \o weekly]
                  ELSE [raised |-> FALSE,
                        failure |-> \/ fail_at = "monthly_spending"
                                    \/ fail_at = "weekly_spending" /\ read_weekly_budget > 0,
                        value |-> monthly \o weekly \o suggestion_alerts]
    ELSE IF fail_at = "expensive_items"
    THEN [raised |-> FALSE, failure |-> TRUE, value |-> << >>]
    ELSE [raised |-> FALSE, failure |-> FALSE, value |-> suggestion_alerts]

\* suggestions is filled query by query and returned after the except
\* clause with what it holds by then
get_cost_optimization_suggestions_failing(fail_at) ==
    IF fail_at = "expensive_item"
    THEN [raised |-> FALSE, failure |-> TRUE, value |-> << >>]
    ELSE IF fail_at = "high_spending_category"
    THEN [raised |-> FALSE, failure |-> TRUE,
          value |-> expensive_item_suggestions(
                        limit(order_by_price_desc(above_average_price), 5))]
    ELSE [raised |-> FALSE, failure |-> FALSE,
          value |-> get_cost_optimization_suggestions]

get_store_comparison_failing(order, fail_at) ==
    IF fail_at = "multi_store_items"
    THEN [raised |-> FALSE, failure |-> TRUE, value |-> {}]
    ELSE [raised |-> get_store_comparison(order).raised, failure |-> FALSE,
          value |-> get_store_comparison(order).value]

\* -------------------------------------------------------------- queries
\* a query leaves the tables alone; call keeps what it returned
call_get_weekly_budget ==
    /\ call' = [op |-> "get_weekly_budget", arg |-> << >>, ret |-> get_weekly_budget]
    /\ UNCHANGED <<items, seq, budget_settings>>

call_get_monthly_budget ==
    /\ call' = [op |-> "get_monthly_budget", arg |-> << >>, ret |-> get_monthly_budget]
    /\ UNCHANGED <<items, seq, budget_settings>>

call_get_week_start_date(d) ==
    /\ call' = [op |-> "get_week_start_date", arg |-> d, ret |-> get_week_start_date(d)]
    /\ UNCHANGED <<items, seq, budget_settings>>

call_get_month_start_date(d) ==
    /\ call' = [op |-> "get_month_start_date", arg |-> d, ret |-> get_month_start_date(d)]
    /\ UNCHANGED <<items, seq, budget_settings>>

call_get_month_end_date(d) ==
    /\ call' = [op |-> "get_month_end_date", arg |-> d, ret |-> get_month_end_date(d)]
    /\ UNCHANGED <<items, seq, budget_settings>>

call_get_weekly_spending(d) ==
    /\ call' = [op |-> "get_weekly_spending", arg |-> d, ret |-> get_weekly_spending(d)]
    /\ UNCHANGED <<items, seq, budget_settings>>

call_get_monthly_spending(d) ==
    /\ call' = [op |-> "get_monthly_spending", arg |-> d, ret |-> get_monthly_spending(d)]
    /\ UNCHANGED <<items, seq, budget_settings>>

call_get_spending_by_category(d) ==
    /\ call' = [op |-> "get_spending_by_category", arg |-> d,
                ret |-> get_spending_by_category(d)]
    /\ UNCHANGED <<items, seq, budget_settings>>

call_get_spending_by_store(d) ==
    /\ call' = [op |-> "get_spending_by_store", arg |-> d,
                ret |-> get_spending_by_store(d)]
    /\ UNCHANGED <<items, seq, budget_settings>>

call_get_expense_summary(d) ==
    /\ call' = [op |-> "get_expense_summary", arg |-> d, ret |-> get_expense_summary(d)]
    /\ UNCHANGED <<items, seq, budget_settings>>

\* call_get_budget_alerts reading the budget with the statement of the
\* setters, which writes the row back
call_get_budget_alerts_writing(d) ==
    /\ call' = [op |-> "get_budget_alerts", arg |-> d, ret |-> get_budget_alerts(d)]
    /\ budget_settings' = replace_monthly(read_monthly_budget)
    /\ UNCHANGED <<items, seq>>

call_get_budget_alerts(d) ==
    /\ call' = [op |-> "get_budget_alerts", arg |-> d, ret |-> get_budget_alerts(d)]
    /\ UNCHANGED <<items, seq, budget_settings>>

call_get_cost_optimization_suggestions ==
    /\ call' = [op |-> "get_cost_optimization_suggestions", arg |-> << >>,
                ret |-> get_cost_optimization_suggestions]
    /\ UNCHANGED <<items, seq, budget_settings>>

call_get_store_comparison ==
    /\ \E order \in visit_orders :
          call' = [op |-> "get_store_comparison", arg |-> << >>,
                   ret |-> get_store_comparison(order)]
    /\ UNCHANGED <<items, seq, budget_settings>>

\* a query during which the read fail_at of the store fails (or none does)
failing_get_weekly_spending(d, fail_at) ==
    /\ call' = [op |-> "get_weekly_spending", arg |-> d,
                ret |-> get_weekly_spending_failing(d, fail_at)]
    /\ UNCHANGED <<items, seq, budget_settings>>

failing_get_monthly_spending(d, fail_at) ==
    /\ call' = [op |-> "get_monthly_spending", arg |-> d,
                ret |-> get_monthly_spending_failing(d, fail_at)]
    /\ UNCHANGED <<items, seq, budget_settings>>

failing_get_spending_by_category(d, fail_at) ==
    /\ call' = [op |-> "get_spending_by_category", arg |-> d,
                ret |-> get_spending_by_category_failing(d, fail_at)]
    /\ UNCHANGED <<items, seq, budget_settings>>

failing_get_spending_by_store(d, fail_at) ==
    /\ call' = [op |-> "get_spending_by_store", arg |-> d,
                ret |-> get_spending_by_store_failing(d, fail_at)]
    /\ UNCHANGED <<items, seq, budget_settings>>

failing_get_expense_summary(d, fail_at) ==
    /\ call' = [op |-> "get_expense_summary", arg |-> d,
                ret |-> get_expense_summary_failing(d, fail_at)]
    /\ UNCHANGED <<items, seq, budget_settings>>

failing_get_budget_alerts(d, fail_at) ==
    /\ call' = [op |-> "get_budget_alerts", arg |-> d,
                ret |-> get_budget_alerts_failing(d, fail_at)]
    /\ UNCHANGED <<items, seq, budget_settings>>

failing_get_cost_optimization_suggestions(fail_at) ==
    /\ call' = [op |-> "get_cost_optimization_suggestions", arg |-> << >>,
                ret |-> get_cost_optimization_suggestions_failing(fail_at)]
    /\ UNCHANGED <<items, seq, budget_settings>>

failing_get_store_comparison(fail_at) ==
    /\ \E order \in visit_orders :
          call' = [op |-> "get_store_comparison", arg |-> << >>,
                   ret |-> get_store_comparison_failing(order, fail_at)]
    /\ UNCHANGED <<items, seq, budget_settings>>

\* --------------------------------------------------------------- inputs
NoDate == << >>                                       \* ""
Jan15 == <<50, 48, 50, 52, 45, 48, 49, 45, 49, 53>>   \* "2024-01-15", a Monday
Jan31 == <<50, 48, 50, 52, 45, 48, 49, 45, 51, 49>>   \* "2024-01-31", a Wednesday
Feb01 == <<50, 48, 50, 52, 45, 48, 50, 45, 48, 49>>   \* "2024-02-01", a Thursday
Feb04 == <<50, 48, 50, 52, 45, 48, 50, 45, 48, 52>>   \* "2024-02-04", a Sunday
Feb29 == <<50, 48, 50, 52, 45, 48, 50, 45, 50, 57>>   \* "2024-02-29"
Dec31 == <<50, 48, 50, 51, 45, 49, 50, 45, 51, 49>>   \* "2023-12-31", a Sunday
Feb30 == <<50, 48, 50, 52, 45, 48, 50, 45, 51, 48>>   \* "2024-02-30"
Jan5 == <<50, 48, 50, 52, 45, 49, 45, 48, 53>>        \* "2024-1-05"
Garbage == <<115, 111, 111, 110>>                     \* "soon"

ValidDates == {Jan15, Jan31, Feb01, Feb04, Feb29, Dec31}
InvalidDates == {NoDate, Feb30, Jan5, Garbage}

Item(n, c, q, p, s, ip, pd) ==
    [name |-> n, category |-> c, quantity |-> q, unit |-> "kg",
     price_per_unit |-> p, store_name |-> s, is_purchased |-> ip,
     purchase_date |-> pd, notes |-> ""]

Ids == 0..MaxId

\* what the callers of the store API pass in: valid and invalid field
\* values, purchased with and without a date
StoreItems ==
    { Item("Apples", "Fruits", qp[1], qp[2], "Walmart", st[1], st[2]) :
        qp \in {<<1, 4>>, <<2, 0>>},
        st \in {<<FALSE, NoDate>>, <<TRUE, Jan15>>, <<TRUE, NoDate>>} }
    \cup { Item(" ", "Fruits", 1, 4, "Walmart", FALSE, NoDate),
           Item("Apples", "Fruits", 0, 4, "Walmart", FALSE, NoDate),
           Item("Apples", "Fruits", 1, -1, "Walmart", FALSE, NoDate) }

\* what the user types at the prompts of edit_item
EditInputs ==
    { Item("Apples", "Fruits", 1, 4, "Walmart", FALSE, NoDate),
      Item("Apples", "Fruits", -1, 4, "Walmart", FALSE, NoDate),
      Item("Apples", "Fruits", 1, -1, "Walmart", FALSE, NoDate),
      Item(" ", "Fruits", 1, 4, "Walmart", FALSE, NoDate) }

MarkDates == {Jan15, NoDate}

\* the store API: GroceryManager's writes and the CLI's edit flow
Next ==
    \/ \E item \in StoreItems : add_item(item)
    \/ \E id \in Ids, item \in StoreItems : update_item(id, item)
    \/ \E id \in Ids, in \in EditInputs : edit_item(id, in)
    \/ \E id \in Ids : delete_item(id)
    \/ \E id \in Ids, d \in MarkDates : mark_as_purchased(id, d)
    \/ \E id \in Ids : mark_as_unpurchased(id)

Spec == Init /\ [][Next]_vars

\* budgets and the queries that read them; items differ in cost and date
Budgets == {-1, 0, 5, 8, 9}

BudgetItems ==
    { Item("Apples", "Fruits", q, 4, "Walmart", st[1], st[2]) :
        q \in {1, 2}, st \in {<<FALSE, NoDate>>, <<TRUE, Jan15>>, <<TRUE, Feb01>>} }

BudgetDates == {Jan15, Jan31, Garbage}

NextBudget ==
    \/ \E item \in BudgetItems : add_item(item)
    \/ \E id \in Ids : delete_item(id)
    \/ \E id \in Ids, d \in {Jan15, Feb01} : mark_as_purchased(id, d)
    \/ \E id \in Ids : mark_as_unpurchased(id)
    \/ \E b \in Budgets : set_weekly_budget(b)
    \/ \E b \in Budgets : set_monthly_budget(b)
    \/ call_get_weekly_budget
    \/ call_get_monthly_budget
    \/ \E d \in BudgetDates : call_get_expense_summary(d)
    \/ \E d \in BudgetDates : call_get_budget_alerts(d)

SpecBudget == Init /\ [][NextBudget]_vars

\* the six queries that take a target date, called with dates that are
\* and are not on the calendar
QueryItems ==
    { Item("Apples", "Fruits", 1, 4, "Walmart", FALSE, NoDate),
      Item("Apples", "Fruits", 2, 4, "Walmart", TRUE, Jan31) }

QueryDates == {Jan31, Feb30, NoDate}

NextQuery ==
    \/ \E item \in QueryItems : add_item(item)
    \/ \E id \in Ids : delete_item(id)
    \/ \E b \in {0, 5} : set_monthly_budget(b)
    \/ \E d \in QueryDates : call_get_weekly_spending(d)
    \/ \E d \in QueryDates : call_get_monthly_spending(d)
    \/ \E d \in QueryDates : call_get_spending_by_category(d)
    \/ \E d \in QueryDates : call_get_spending_by_store(d)
    \/ \E d \in QueryDates : call_get_expense_summary(d)
    \/ \E d \in QueryDates : call_get_budget_alerts(d)

SpecQuery == Init /\ [][NextQuery]_vars

\* the spending totals over rows that are added, replaced, marked and
\* deleted, with purchase dates at both ends of a month and of a week
SpendItems ==
    { Item("Apples", "Fruits", q, 4, "Walmart", st[1], st[2]) :
        q \in {1, 2},
        st \in {<<FALSE, NoDate>>, <<TRUE, Jan15>>, <<TRUE, Jan31>>, <<TRUE, Feb01>>} }

SpendDates == {Jan31, Feb04}

NextSpend ==
    \/ \E item \in SpendItems : add_item(item)
    \/ \E id \in Ids, item \in SpendItems : update_item(id, item)
    \/ \E id \in Ids : delete_item(id)
    \/ \E id \in Ids, d \in {Jan31, Garbage} : mark_as_purchased(id, d)
    \/ \E id \in Ids : mark_as_unpurchased(id)
    \/ \E d \in SpendDates : call_get_weekly_spending(d)
    \/ \E d \in SpendDates : call_get_monthly_spending(d)

SpecSpend == Init /\ [][NextSpend]_vars

\* the groupings by category and by store: rows of two categories in two
\* stores, zero-priced, of another month and not purchased
GroupItems ==
    { Item("Apples", "Fruits", 1, 4, "Walmart", TRUE, Jan15),
      Item("Apples", "Fruits", 2, 4, "Costco", TRUE, Jan15),
      Item("Milk", "Dairy", 2, 4, "Walmart", TRUE, Jan31),
      Item("Milk", "Dairy", 1, 0, "Costco", TRUE, Jan15),
      Item("Apples", "Fruits", 1, 0, "Walmart", TRUE, Jan15),
      Item("Apples", "Fruits", 2, 4, "Walmart", TRUE, Feb01),
      Item("Milk", "Dairy", 1, 4, "Costco", FALSE, NoDate) }

GroupDates == {Jan15, Feb04, Dec31}

NextGroup ==
    \/ \E item \in GroupItems : add_item(item)
    \/ \E id \in Ids : delete_item(id)
    \/ \E d \in GroupDates : call_get_spending_by_category(d)
    \/ \E d \in GroupDates : call_get_spending_by_store(d)
    \/ \E d \in GroupDates : call_get_monthly_spending(d)
    \/ \E d \in GroupDates : call_get_expense_summary(d)

SpecGroup == Init /\ [][NextGroup]_vars

\* the store comparison: one product bought at several prices in stores
\* whose names do and do not hold a ',' or a ':', other products, and rows
\* not purchased
CompareItems ==
    { Item("Milk", "Dairy", 1, 5, "Walmart", TRUE, Jan15),
      Item("Milk", "Dairy", 1, 8, "Costco", TRUE, Feb01),
      Item("Milk", "Dairy", 2, 8, "Walmart", TRUE, Jan15),
      Item("Milk", "Dairy", 1, 0, "Walmart", TRUE, Jan15),
      Item("Milk", "Dairy", 1, 0, "Costco", TRUE, Jan15),
      Item("Milk", "Dairy", 1, 8, "Costco", FALSE, NoDate),
      Item("Milk", "Drinks", 1, 8, "Costco", TRUE, Jan15),
      Item("Eggs", "Dairy", 1, 8, "Costco", TRUE, Jan15),
      Item("Milk", "Dairy", 1, 5, "Aldi, Main St", TRUE, Jan15),
      Item("Milk", "Dairy", 1, 5, "Shop:East", TRUE, Jan15) }

NextCompare ==
    \/ \E item \in CompareItems : add_item(item)
    \/ \E id \in Ids : delete_item(id)
    \/ \E id \in Ids : mark_as_purchased(id, Jan15)
    \/ \E id \in Ids : mark_as_unpurchased(id)
    \/ call_get_store_comparison

SpecCompare == Init /\ [][NextCompare]_vars

\* the suggestion alert: rows priced below, at and above 10.0, purchased
\* and not, entered cheapest first, under every setting of the budgets
SuggestItems ==
    { Item("Apples", "Fruits", 1, 4, "Walmart", TRUE, Jan15),
      Item("Cheese", "Dairy", 1, 10, "Walmart", TRUE, Jan15),
      Item("Salmon", "Fish", 1, 11, "Walmart", TRUE, Jan15),
      Item("Steak", "Meat", 1, 12, "Costco", TRUE, Feb01),
      Item("Saffron", "Spices", 1, 15, "Costco", FALSE, NoDate) }

SuggestDates == {Jan15, Feb04}

\* item costs at least as much per unit as every stored row
cheapest_first(item) ==
    \A i \in DOMAIN items : items[i].price_per_unit <= item.price_per_unit

NextSuggest ==
    \/ \E item \in SuggestItems : cheapest_first(item) /\ add_item_upto(item, MaxRows)
    \/ \E b \in {0, 5} : set_monthly_budget(b)
    \/ set_weekly_budget(5)
    \/ \E d \in SuggestDates : call_get_budget_alerts(d)

SpecSuggest == Init /\ [][NextSuggest]_vars

\* the optimization suggestions: many rows of few prices in three
\* categories, entered cheapest first, the first of them open to the edit
\* flow
OptimizeItems ==
    { Item("Rice", "Grains", 1, 0, "Walmart", TRUE, Jan15),
      Item("Cheese", "Dairy", 1, 10, "Walmart", TRUE, Jan15),
      Item("Steak", "Meat", 1, 12, "Costco", TRUE, Feb01),
      Item("Saffron", "Spices", 1, 100, "Costco", FALSE, NoDate) }

OptimizeEdits ==
    { Item("Cheese", "Dairy", 1, -1, "Walmart", FALSE, NoDate),
      Item("Cheese", "Dairy", -1, 10, "Walmart", FALSE, NoDate) }

NextOptimize ==
    \/ \E item \in OptimizeItems : cheapest_first(item) /\ add_item_upto(item, MaxRows)
    \/ \E in \in OptimizeEdits : edit_item(1, in)
    \/ call_get_cost_optimization_suggestions

SpecOptimize == Init /\ [][NextOptimize]_vars

\* the queries while the store fails at one of their reads
FailureItems ==
    { Item("Apples", "Fruits", 2, 4, "Walmart", TRUE, Jan15),
      Item("Steak", "Meat", 1, 12, "Costco", TRUE, Jan15),
      Item("Steak", "Meat", 1, 4, "Walmart", FALSE, NoDate) }

FailureDates == {Jan15, Feb04}

NextFailure ==
    \/ \E item \in FailureItems : add_item(item)
    \/ \E b \in {0, 5} : set_monthly_budget(b)
    \/ set_weekly_budget(5)
    \/ \E d \in FailureDates, f \in {"none", "weekly_spending"} :
          failing_get_weekly_spending(d, f)
    \/ \E d \in FailureDates, f \in {"none", "monthly_spending"} :
          failing_get_monthly_spending(d, f)
    \/ \E d \in FailureDates, f \in {"none", "by_category"} :
          failing_get_spending_by_category(d, f)
    \/ \E d \in FailureDates, f \in {"none", "by_store"} :
          failing_get_spending_by_store(d, f)
    \/ \E d \in FailureDates,
          f \in {"none", "basic_stats", "most_expensive", "cheapest", "monthly_budget"} :
          failing_get_expense_summary(d, f)
    \/ \E d \in FailureDates,
          f \in {"none", "monthly_budget", "monthly_spending", "weekly_budget",
                 "weekly_spending", "expensive_items"} :
          failing_get_budget_alerts(d, f)
    \/ \E f \in {"none", "expensive_item", "high_spending_category"} :
          failing_get_cost_optimization_suggestions(f)
    \/ \E f \in {"none", "multi_store_items"} : failing_get_store_comparison(f)

SpecFailure == Init /\ [][NextFailure]_vars

\* every query of the analytic layer between the writes of the store API
FrameItems ==
    { Item("Milk", "Dairy", 1, 12, "Walmart", TRUE, Jan15),
      Item("Milk", "Dairy", 1, 12, "Costco", TRUE, Jan15),
      Item("Apples", "Fruits", 2, 4, "Walmart", FALSE, NoDate) }

FrameDates == {Jan15, Feb30}

NextFrame ==
    \/ \E item \in FrameItems : add_item(item)
    \/ \E id \in Ids, item \in FrameItems : update_item(id, item)
    \/ \E id \in Ids : mark_as_purchased(id, Jan15)
    \/ \E id \in Ids : mark_as_unpurchased(id)
    \/ set_monthly_budget(5)
    \/ set_weekly_budget(5)
    \/ \E d \in FrameDates : call_get_weekly_spending(d)
    \/ \E d \in FrameDates : call_get_monthly_spending(d)
    \/ \E d \in FrameDates : call_get_spending_by_category(d)
    \/ \E d \in FrameDates : call_get_spending_by_store(d)
    \/ \E d \in FrameDates : call_get_expense_summary(d)
    \/ \E d \in FrameDates : call_get_budget_alerts(d)
    \/ call_get_cost_optimization_suggestions
    \/ call_get_store_comparison

SpecFrame == Init /\ [][NextFrame]_vars

\* the constructor of GroceryItem on every combination of valid and
\* invalid fields
ConstructItems ==
    { [Item(n, c, q, p, st, FALSE, NoDate) EXCEPT !.unit = u] :
        n \in {"Apples", " ", ""}, c \in {"Fruits", "\t"}, q \in {-1, 0, 1},
        p \in {-1, 0, 4}, st \in {"Walmart", "  "}, u \in {"kg", ""} }

NextConstruct ==
    \/ \E item \in ConstructItems : add_item(item)
    \/ \E item \in ConstructItems : update_item(1, item)
    \/ \E id \in Ids : delete_item(id)

SpecConstruct == Init /\ [][NextConstruct]_vars

\* one product bought up to MaxStoreRows times in two stores, at prices
\* that differ and that are equal
StoreRowItems ==
    { Item("Milk", "Dairy", 1, p, s, TRUE, Jan15) :
        p \in {5, 8, 10}, s \in {"Walmart", "Costco"} }

NextStores ==
    \/ \E item \in StoreRowItems : add_item_upto(item, MaxStoreRows)
    \/ call_get_store_comparison

SpecStores == Init /\ [][NextStores]_vars

\* update_item and the purchase toggles on rows that differ in every
\* field, one of them unpurchased with a purchase date, beside a budget
ReplaceItems ==
    { Item("Milk", "Dairy", 1, 12, "Walmart", FALSE, NoDate),
      Item("Milk", "Dairy", 1, 12, "Walmart", FALSE, Jan15),
      [Item("Apples", "Fruits", 2, 4, "Costco", TRUE, Jan15)
           EXCEPT !.unit = "bag", !.notes = "organic"] }

NextReplace ==
    \/ \E item \in ReplaceItems : add_item(item)
    \/ \E id \in Ids, item \in ReplaceItems : update_item(id, item)
    \/ \E id \in Ids : delete_item(id)
    \/ \E id \in Ids, d \in {Jan15, Feb01} : mark_as_purchased(id, d)
    \/ \E id \in Ids : mark_as_unpurchased(id)
    \/ set_monthly_budget(5)

SpecReplace == Init /\ [][NextReplace]_vars

\* the date helpers on the text "YYYY-MM-DD" of every day number 1..31 of
\* every month of some years: the first and the last year of datetime.date, a
\* year of three digits, century years that are and are not leap years, a
\* leap year and the years around it
iso(y, m, d) ==
    << 48 + (y \div 1000), 48 + ((y \div 100) % 10), 48 + ((y \div 10) % 10),
       48 + (y % 10), 45, 48 + (m \div 10), 48 + (m % 10), 45,
       48 + (d \div 10), 48 + (d % 10) >>

DateYears == {1, 999, 1000, 1900, 2000, 2023, 2024, 2025, 9999}

DateTexts ==
    { iso(y, m, d) : y \in DateYears, m \in 1..12, d \in 1..31 } \cup InvalidDates

\* a new store and the date text the helpers are then applied to
InitDate ==
    /\ items = << >>
    /\ seq = 0
    /\ budget_settings = << >>
    /\ \E d \in DateTexts : call = [op |-> "init", arg |-> d, ret |-> "None"]

NextDate ==
    \/ call_get_week_start_date(call.arg)
    \/ call_get_month_start_date(call.arg)
    \/ call_get_month_end_date(call.arg)
    \/ call_get_weekly_spending(call.arg)
    \/ call_get_monthly_spending(call.arg)

SpecDate == InitDate /\ [][NextDate]_vars

\* ------------------------------------------------- what the claims use
\* the purchased rows whose purchase date is a calendar date of the month
\* of d, found from the parsed dates
BoughtInMonth(d) ==
    LET month == strptime(d).date
    IN  { i \in DOMAIN items :
            /\ items[i].is_purchased
            /\ validate_date(items[i].purchase_date)
            /\ LET bought == strptime(items[i].purchase_date).date
               IN  bought[1] = month[1] /\ bought[2] = month[2] }

\* the purchased rows bought from the Monday on or before d to the Sunday
\* on or after it, found from the day numbers
BoughtInWeek(d) ==
    LET day == toordinal(strptime(d).date)
        wd == weekday(strptime(d).date)
    IN  { i \in DOMAIN items :
            /\ items[i].is_purchased
            /\ validate_date(items[i].purchase_date)
            /\ LET gap == toordinal(strptime(items[i].purchase_date).date) - day
               IN  gap >= 0 - wd /\ gap <= 6 - wd }

RECURSIVE CostOf(_)
CostOf(ids) ==
    IF ids = {} THEN 0
    ELSE LET i == CHOOSE x \in ids : TRUE
         IN  total_cost(items[i]) + CostOf(ids \ {i})

AlertsOf(alerts, period) ==
    { n \in 1..Len(alerts) : alerts[n].message = period }

DateQueries ==
    {"get_weekly_spending", "get_monthly_spending", "get_spending_by_category",
     "get_spending_by_store", "get_expense_summary", "get_budget_alerts"}

\* ---------------------------------------------------------------- C1
\* C1: a step of set_weekly_budget(w) that is accepted makes
\* get_weekly_budget return w and leaves get_monthly_budget as it was, a
\* step of set_monthly_budget(m) that is accepted makes get_monthly_budget
\* return m and leaves get_weekly_budget as it was, and no other step
\* changes either budget.
C1_BudgetUpsert ==
    [][ /\ (call'.op = "set_weekly_budget" /\ call'.ret = "True")
            => (get_weekly_budget' = call'.arg
                /\ get_monthly_budget' = get_monthly_budget)
        /\ (call'.op = "set_monthly_budget" /\ call'.ret = "True")
            => (get_monthly_budget' = call'.arg
                /\ get_weekly_budget' = get_weekly_budget)
        /\ call'.op \notin {"set_weekly_budget", "set_monthly_budget"}
            => (get_weekly_budget' = get_weekly_budget
                /\ get_monthly_budget' = get_monthly_budget) ]_vars

\* ---------------------------------------------------------------- C2
\* C2: when get_budget_alerts has returned for a valid date, it holds a
\* weekly alert whenever the weekly budget is > 0 and the week's spending
\* is at least 80% of it, and a monthly alert whenever the monthly budget
\* is > 0 and the month's spending is at least 80% of it, each whatever
\* the other budget is.
C2_RulesIndependent ==
    (call.op = "get_budget_alerts" /\ validate_date(call.arg)) =>
        /\ ~call.ret.raised
        /\ (get_weekly_budget > 0
            /\ CostOf(BoughtInWeek(call.arg)) * 100 >= 80 * get_weekly_budget)
            => AlertsOf(call.ret.value, "Weekly budget") # {}
        /\ (get_monthly_budget > 0
            /\ CostOf(BoughtInMonth(call.arg)) * 100 >= 80 * get_monthly_budget)
            => AlertsOf(call.ret.value, "Monthly budget") # {}

\* ---------------------------------------------------------------- C3
\* C3: when get_budget_alerts has returned for a valid date with a monthly
\* budget B > 0 and S spent in the date's month, the monthly alerts are:
\* none when S/B*100 < 80; exactly one warning with amount S and
\* percentage S/B*100 when 80 <= S/B*100 < 100; exactly one exceeded with
\* amount S - B and percentage S/B*100 when S/B*100 >= 100.
C3_MonthlyThresholds ==
    (call.op = "get_budget_alerts" /\ validate_date(call.arg)
     /\ get_monthly_budget > 0) =>
        LET B == get_monthly_budget
            S == CostOf(BoughtInMonth(call.arg))
            alerts == call.ret.value
            monthly == AlertsOf(alerts, "Monthly budget")
        IN  /\ ~call.ret.raised
            /\ S * 100 < 80 * B => monthly = {}
            /\ (S * 100 >= 80 * B /\ S * 100 < 100 * B) =>
                   /\ Cardinality(monthly) = 1
                   /\ \A n \in monthly :
                        /\ alerts[n].alert_type = "warning"
                        /\ alerts[n].amount = S
                        /\ alerts[n].percentage.den # 0
                        /\ RatEq(alerts[n].percentage, Ratio(S * 100, B))
            /\ S * 100 >= 100 * B =>
                   /\ Cardinality(monthly) = 1
                   /\ \A n \in monthly :
                        /\ alerts[n].alert_type = "exceeded"
                        /\ alerts[n].amount = S - B
                        /\ alerts[n].percentage.den # 0
                        /\ RatEq(alerts[n].percentage, Ratio(S * 100, B))

\* get_budget_alerts has returned a monthly warning at exactly 80%
C3_Witness ==
    /\ call.op = "get_budget_alerts"
    /\ validate_date(call.arg)
    /\ get_monthly_budget > 0
    /\ CostOf(BoughtInMonth(call.arg)) * 100 = 80 * get_monthly_budget
    /\ \E n \in AlertsOf(call.ret.value, "Monthly budget") :
          call.ret.value[n].alert_type = "warning"

\* ---------------------------------------------------------------- C4
\* C4: every row of grocery_items has quantity > 0, price_per_unit >= 0
\* and a name, category, unit and store_name that are not blank.
C4_StoredItemsValid ==
    \A i \in DOMAIN items :
        /\ items[i].quantity > 0
        /\ items[i].price_per_unit >= 0
        /\ strip(items[i].name) # ""
        /\ strip(items[i].category) # ""
        /\ strip(items[i].unit) # ""
        /\ strip(items[i].store_name) # ""

\* ---------------------------------------------------------------- C5
\* C5: every row with is_purchased = true has a purchase_date that is a
\* YYYY-MM-DD calendar date, and every row with is_purchased = false has
\* the purchase_date ''.
C5_PurchaseDateMatchesState ==
    \A i \in DOMAIN items :
        /\ items[i].is_purchased => validate_date(items[i].purchase_date)
        /\ ~items[i].is_purchased => items[i].purchase_date = NoDate

\* ---------------------------------------------------------------- C6
\* C6: a query that takes a target date and was called with a string that
\* is not a YYYY-MM-DD calendar date has raised the invalid-date error.
C6_InvalidDateRaises ==
    (call.op \in DateQueries /\ ~validate_date(call.arg)) => call.ret.raised

RECURSIVE SumTotals(_, _)
SumTotals(f, n) == IF n = 0 THEN 0 ELSE f[n].total_spent + SumTotals(f, n - 1)

RECURSIVE SumCounts(_, _)
SumCounts(f, n) == IF n = 0 THEN 0 ELSE f[n].item_count + SumCounts(f, n - 1)

\* the summaries are one per key of the rows ids, each with the sum, the
\* count and the average of the rows that have its key
OnePerKey(summaries, ids, key) ==
    /\ Len(summaries) = Cardinality({ key[i] : i \in ids })
    /\ \A i \in ids : \E n \in 1..Len(summaries) : summaries[n].key = key[i]
    /\ \A n \in 1..Len(summaries) :
          LET grp == { i \in ids : key[i] = summaries[n].key }
          IN  /\ grp # {}
              /\ summaries[n].total_spent = CostOf(grp)
              /\ summaries[n].item_count = Cardinality(grp)
              /\ summaries[n].average_cost.den # 0
              /\ RatEq(summaries[n].average_cost,
                       Ratio(CostOf(grp), Cardinality(grp)))

\* C8: for each date d, get_spending_by_category(d) and
\* get_spending_by_store(d) hold exactly one summary per category (store)
\* of the purchased rows dated in d's month, with total_spent the sum of
\* the group's costs, item_count its size and average_cost their quotient;
\* the totals add up to get_monthly_spending(d) and the counts to
\* get_expense_summary(d).total_items.
C8_GroupsPartition ==
    \A d \in GroupDates :
        LET cats == get_spending_by_category(d)
            stores == get_spending_by_store(d)
            ids == BoughtInMonth(d)
            monthly == get_monthly_spending(d).value
            counted == get_expense_summary(d).total_items
        IN  /\ ~cats.raised /\ ~stores.raised
            /\ OnePerKey(cats.value, ids, [i \in ids |-> items[i].category])
            /\ OnePerKey(stores.value, ids, [i \in ids |-> items[i].store_name])
            /\ SumTotals(cats.value, Len(cats.value)) = monthly
            /\ SumTotals(stores.value, Len(stores.value)) = monthly
            /\ SumCounts(cats.value, Len(cats.value)) = counted
            /\ SumCounts(stores.value, Len(stores.value)) = counted

\* get_spending_by_store has returned one group of two rows that the
\* grouping by category splits into two groups
C8_Witness ==
    /\ call.op = "get_spending_by_store"
    /\ ~call.ret.raised
    /\ Len(call.ret.value) = 1
    /\ call.ret.value[1].item_count = 2
    /\ Len(get_spending_by_category(call.arg).value) = 2

\* ---------------------------------------------------------------- C9
\* the sum of the first n percentages, as one fraction
RECURSIVE SumPercent(_, _)
SumPercent(f, n) ==
    IF n = 0 THEN Zero
    ELSE LET rest == SumPercent(f, n - 1)
             p == f[n].percentage_of_total
         IN  Ratio(rest.num * p.den + p.num * rest.den, rest.den * p.den)

PercentagesRight(summaries) ==
    LET grand == SumTotals(summaries, Len(summaries))
    IN  /\ \A n \in 1..Len(summaries) :
              summaries[n].percentage_of_total.den # 0
        /\ grand > 0 =>
              /\ \A n \in 1..Len(summaries) :
                    RatEq(summaries[n].percentage_of_total,
                          Ratio(summaries[n].total_spent * 100, grand))
              /\ RatEq(SumPercent(summaries, Len(summaries)), Ratio(100, 1))
        /\ grand = 0 =>
              \A n \in 1..Len(summaries) :
                  RatEq(summaries[n].percentage_of_total, Zero)

\* C9: in the category grouping and in the store grouping of a month each
\* percentage_of_total is total_spent / (sum of the groups' total_spent) *
\* 100 and the percentages add up to 100 when that sum is > 0; when it is
\* 0 every percentage_of_total is 0 and nothing was divided by zero.
C9_Percentages ==
    \A d \in GroupDates :
        /\ PercentagesRight(get_spending_by_category(d).value)
        /\ PercentagesRight(get_spending_by_store(d).value)

\* get_spending_by_store has returned groups whose total is 0: only
\* zero-priced rows were bought in the month
C9_Witness ==
    /\ call.op = "get_spending_by_store"
    /\ ~call.ret.raised
    /\ Len(call.ret.value) = 2
    /\ SumTotals(call.ret.value, 2) = 0

\* --------------------------------------------------------------- C10
\* C10: when get_expense_summary has returned for a valid date, with B the
\* configured monthly budget and S the month's spending, total_spent = S,
\* budget_remaining = B - S (which is -S when no budget row exists) and
\* budget_used_percentage = S/B*100 when B > 0, else 0.
C10_SummaryBudget ==
    (call.op = "get_expense_summary" /\ validate_date(call.arg)) =>
        LET B == get_monthly_budget
            S == CostOf(BoughtInMonth(call.arg))
            r == call.ret
        IN  /\ ~r.raised
            /\ r.total_spent = S
            /\ r.budget_remaining = B - S
            /\ Len(budget_settings) = 0 => r.budget_remaining = 0 - S
            /\ r.budget_used_percentage.den # 0
            /\ B > 0 => RatEq(r.budget_used_percentage, Ratio(S * 100, B))
            /\ B <= 0 => RatEq(r.budget_used_percentage, Zero)

\* get_expense_summary has returned for a month that is over its budget
C10_Witness ==
    /\ call.op = "get_expense_summary"
    /\ validate_date(call.arg)
    /\ get_monthly_budget > 0
    /\ CostOf(BoughtInMonth(call.arg)) > get_monthly_budget
    /\ call.ret.budget_remaining < 0

\* --------------------------------------------------------------- C11
\* C11: when get_budget_alerts has returned for a valid date with a monthly
\* budget B > 0 and S >= B spent in the date's month, get_monthly_spending
\* of that date is S, get_expense_summary of that date has
\* budget_used_percentage = S/B*100, and the alerts hold exactly one
\* 'exceeded' alert, whose amount is S - B and is the negation of the
\* summary's budget_remaining.
C11_SummaryAlertsAgree ==
    (call.op = "get_budget_alerts" /\ validate_date(call.arg)
     /\ get_monthly_budget > 0
     /\ CostOf(BoughtInMonth(call.arg)) >= get_monthly_budget) =>
        LET B == get_monthly_budget
            S == CostOf(BoughtInMonth(call.arg))
            summary == get_expense_summary(call.arg)
            alerts == call.ret.value
            exceeded == { n \in 1..Len(alerts) : alerts[n].alert_type = "exceeded" }
        IN  /\ ~call.ret.raised
            /\ get_monthly_spending(call.arg).value = S
            /\ summary.budget_used_percentage.den # 0
            /\ RatEq(summary.budget_used_percentage, Ratio(S * 100, B))
            /\ Cardinality(exceeded) = 1
            /\ \A n \in exceeded :
                  /\ alerts[n].amount = S - B
                  /\ alerts[n].amount = 0 - summary.budget_remaining

\* get_budget_alerts has returned an 'exceeded' alert for a month in which
\* two purchases together went over the budget
C11_Witness ==
    /\ call.op = "get_budget_alerts"
    /\ validate_date(call.arg)
    /\ get_monthly_budget > 0
    /\ Cardinality(BoughtInMonth(call.arg)) = 2
    /\ CostOf(BoughtInMonth(call.arg)) > get_monthly_budget
    /\ \E n \in 1..Len(call.ret.value) :
          /\ call.ret.value[n].alert_type = "exceeded"
          /\ call.ret.value[n].amount > 0

\* --------------------------------------------------------------- C12
\* the purchased rows of a (name, category) pair
PurchasedOf(k) ==
    { i \in DOMAIN items :
        items[i].is_purchased /\ <<items[i].name, items[i].category>> = k }

\* the pairs whose purchased rows are in at least two stores
PairsInTwoStores ==
    { k \in { <<items[i].name, items[i].category>> : i \in DOMAIN items } :
        Cardinality({ items[i].store_name : i \in PurchasedOf(k) }) >= 2 }

MinPrice(ids) ==
    CHOOSE p \in { items[i].price_per_unit : i \in ids } :
        \A i \in ids : p <= items[i].price_per_unit

MaxPrice(ids) ==
    CHOOSE p \in { items[i].price_per_unit : i \in ids } :
        \A i \in ids : p >= items[i].price_per_unit

\* C12: when get_store_comparison has returned, it raised nothing and
\* holds exactly one entry for each (name, category) pair whose purchased
\* rows are in at least 2 distinct stores and no other entry; each entry
\* has cheapest_price the minimum and most_expensive_price the maximum
\* price_per_unit of the pair's purchased rows, potential_savings their
\* difference, which is >= 0, and savings_percentage = potential_savings /
\* most_expensive_price * 100, or 0 when most_expensive_price is 0.
C12_StoreComparison ==
    (call.op = "get_store_comparison") =>
        /\ ~call.ret.raised
        /\ \A k \in PairsInTwoStores :
              Cardinality({ e \in call.ret.value :
                              e.item = k[1] /\ e.category = k[2] }) = 1
        /\ \A e \in call.ret.value :
              LET k == <<e.item, e.category>>
                  low == MinPrice(PurchasedOf(k))
                  high == MaxPrice(PurchasedOf(k))
              IN  /\ k \in PairsInTwoStores
                  /\ e.cheapest_price = low
                  /\ e.most_expensive_price = high
                  /\ e.potential_savings = high - low
                  /\ e.potential_savings >= 0
                  /\ e.savings_percentage.den # 0
                  /\ high > 0 =>
                        RatEq(e.savings_percentage, Ratio((high - low) * 100, high))
                  /\ high = 0 => RatEq(e.savings_percentage, Zero)

\* --------------------------------------------------------------- C13
\* C13: when get_budget_alerts has returned for a valid date, whatever the
\* budgets are, it holds exactly one 'suggestion' alert if some purchased
\* row has price_per_unit > 10 and none otherwise; the alert has amount 0
\* and percentage 0 and lists min(3, number of such rows) of them, no row
\* twice, in descending order of price, and no row left out costs more per
\* unit than a listed one.
C13_SuggestionAlert ==
    (call.op = "get_budget_alerts" /\ validate_date(call.arg)) =>
        LET alerts == call.ret.value
            suggestion == { n \in 1..Len(alerts) : alerts[n].alert_type = "suggestion" }
            over10 == { i \in DOMAIN items :
                          items[i].is_purchased /\ items[i].price_per_unit > 10 }
        IN  /\ ~call.ret.raised
            /\ over10 # {} => Cardinality(suggestion) = 1
            /\ over10 = {} => suggestion = {}
            /\ \A n \in suggestion :
                  LET listed == alerts[n].listed
                  IN  /\ alerts[n].amount = 0
                      /\ RatEq(alerts[n].percentage, Zero)
                      /\ Len(listed) <= 3
                      /\ Len(listed) = Cardinality(over10) \/ Len(listed) = 3
                      /\ \A a \in 1..Len(listed) : listed[a] \in over10
                      /\ \A a, b \in 1..Len(listed) :
                            a < b => /\ listed[a] # listed[b]
                                     /\ items[listed[a]].price_per_unit
                                          >= items[listed[b]].price_per_unit
                      /\ \A i \in over10 :
                            (\A a \in 1..Len(listed) : listed[a] # i) =>
                                \A a \in 1..Len(listed) :
                                    items[i].price_per_unit
                                      <= items[listed[a]].price_per_unit

\* get_budget_alerts has returned a suggestion that lists 3 of at least 4
\* purchased rows above 10.0, of two prices, while a purchased row at
\* exactly 10.0 and an unpurchased row above 10.0 are stored
C13_Witness ==
    /\ call.op = "get_budget_alerts"
    /\ validate_date(call.arg)
    /\ Cardinality({ i \in DOMAIN items :
                       items[i].is_purchased /\ items[i].price_per_unit > 10 }) >= 4
    /\ \E i, j \in DOMAIN items :
          /\ items[i].is_purchased /\ items[j].is_purchased
          /\ items[i].price_per_unit > 10
          /\ items[j].price_per_unit > items[i].price_per_unit
    /\ \E i \in DOMAIN items : items[i].is_purchased /\ items[i].price_per_unit = 10
    /\ \E i \in DOMAIN items : ~items[i].is_purchased /\ items[i].price_per_unit > 10
    /\ \E n \in 1..Len(call.ret.value) :
          /\ call.ret.value[n].alert_type = "suggestion"
          /\ Len(call.ret.value[n].listed) = 3

\* --------------------------------------------------------------- C14
\* the suggestions of one type, in the order of the list
RECURSIVE OfType(_, _)
OfType(suggestions, type) ==
    IF suggestions = << >> THEN << >>
    ELSE (IF Head(suggestions).type = type THEN <<Head(suggestions)>> ELSE << >>)
         \o OfType(Tail(suggestions), type)

Purchased == { i \in DOMAIN items : items[i].is_purchased }

RECURSIVE PriceSum(_)
PriceSum(ids) ==
    IF ids = {} THEN 0
    ELSE LET i == CHOOSE x \in ids : TRUE
         IN  items[i].price_per_unit + PriceSum(ids \ {i})

\* the purchased rows priced above 1.5 times the mean price of the
\* purchased rows
AboveMeanPrice ==
    { i \in Purchased :
        2 * Cardinality(Purchased) * items[i].price_per_unit > 3 * PriceSum(Purchased) }

\* C14: when get_cost_optimization_suggestions has returned, its
\* 'expensive_item' entries are min(5, number of flagged rows) entries,
\* each the name, price, category and store of a purchased row whose price
\* is above 1.5 times the mean price of the purchased rows, in descending
\* order of price, the a-th entry priced no lower than the a-th highest
\* flagged row; there is none when all purchased rows have the same price
\* (so none when only one row is purchased).
C14_ExpensiveItems ==
    (call.op = "get_cost_optimization_suggestions") =>
        LET listed == OfType(call.ret, "expensive_item")
        IN  /\ Len(listed) = Cardinality(AboveMeanPrice) \/ Len(listed) = 5
            /\ Len(listed) <= Cardinality(AboveMeanPrice)
            /\ \A a \in 1..Len(listed) :
                  /\ \E i \in AboveMeanPrice :
                        /\ listed[a].item = items[i].name
                        /\ listed[a].price = items[i].price_per_unit
                        /\ listed[a].category = items[i].category
                        /\ listed[a].store = items[i].store_name
                  /\ Cardinality({ i \in AboveMeanPrice :
                                     items[i].price_per_unit > listed[a].price }) < a
            /\ \A a, b \in 1..Len(listed) :
                  a < b => listed[a].price >= listed[b].price
            /\ (\A i, j \in Purchased :
                    items[i].price_per_unit = items[j].price_per_unit)
                  => listed = << >>

\* --------------------------------------------------------------- C15
CategoryTotal(c) == CostOf({ i \in Purchased : items[i].category = c })

PurchasedCategories == { items[i].category : i \in Purchased }

RECURSIVE TotalOver(_)
TotalOver(cats) ==
    IF cats = {} THEN 0
    ELSE LET c == CHOOSE x \in cats : TRUE
         IN  CategoryTotal(c) + TotalOver(cats \ {c})

\* the categories whose total is above 1.2 times the mean of the totals
AboveMeanTotal ==
    { c \in PurchasedCategories :
        5 * Cardinality(PurchasedCategories) * CategoryTotal(c)
          > 6 * TotalOver(PurchasedCategories) }

\* C15: when get_cost_optimization_suggestions has returned, its
\* 'high_spending_category' entries are exactly the categories whose
\* purchased total is above 1.2 times the mean of the per-category totals,
\* one entry each with that total, in descending order of total and after
\* every 'expensive_item' entry; not every category is flagged, and none
\* is when there is a single category.
C15_HighSpendingCategories ==
    (call.op = "get_cost_optimization_suggestions") =>
        LET listed == OfType(call.ret, "high_spending_category")
        IN  /\ Len(listed) = Cardinality(AboveMeanTotal)
            /\ { listed[a].category : a \in 1..Len(listed) } = AboveMeanTotal
            /\ \A a \in 1..Len(listed) :
                  listed[a].total_spent = CategoryTotal(listed[a].category)
            /\ \A a, b \in 1..Len(listed) :
                  a < b => listed[a].total_spent >= listed[b].total_spent
            /\ \A a, b \in 1..Len(call.ret) :
                  (call.ret[a].type = "high_spending_category"
                   /\ call.ret[b].type = "expensive_item") => b < a
            /\ PurchasedCategories # {} =>
                  { listed[a].category : a \in 1..Len(listed) } # PurchasedCategories
            /\ Cardinality(PurchasedCategories) = 1 => listed = << >>

\* --------------------------------------------------------------- C16
\* what each query returns for an empty store with no budget
EmptyResult(op) ==
    CASE op \in {"get_weekly_spending", "get_monthly_spending"} -> 0
      [] op = "get_expense_summary" -> default_summary
      [] op = "get_store_comparison" -> {}
      [] OTHER -> << >>

\* C16: a query of the analytic layer during which a read of the store has
\* failed has raised nothing and has returned its zero-valued or empty
\* result: 0 for the two spending totals, the all-default summary, the
\* empty list for the groupings, the alerts, the suggestions and the store
\* comparison, whichever read it was that failed.
C16_FailureFallback ==
    (call.op \in DateQueries \cup {"get_cost_optimization_suggestions",
                                   "get_store_comparison"}
     /\ call.ret.failure) =>
        /\ ~call.ret.raised
        /\ call.ret.value = EmptyResult(call.op)

\* --------------------------------------------------------------- C17
AnalyticQueries ==
    DateQueries \cup {"get_cost_optimization_suggestions", "get_store_comparison"}

\* a store comparison without the names of the stores, which for stores
\* of equal price follow the order in which SQLite visits the rows
WithoutStores(ret) ==
    [raised |-> ret.raised,
     value |-> { [item |-> e.item, category |-> e.category,
                  cheapest_price |-> e.cheapest_price,
                  most_expensive_price |-> e.most_expensive_price,
                  potential_savings |-> e.potential_savings,
                  savings_percentage |-> e.savings_percentage] : e \in ret.value }]

Blank(s) == s \in {"", " ", "  ", "\t"}

Invalid(item) ==
    \/ item.quantity <= 0
    \/ item.price_per_unit < 0
    \/ Blank(item.name) \/ Blank(item.category)
    \/ Blank(item.unit) \/ Blank(item.store_name)

\* C18: constructing a GroceryItem fails with a ValueError exactly when
\* quantity <= 0, or price_per_unit < 0, or name, category, unit or
\* store_name is blank; the error is the one of the first invalid field in
\* the order quantity, price, name, category, unit, store name; the failed
\* construction stores nothing, and an item that is constructed and added
\* is stored as given.
C18_ConstructorValidation ==
    [][ call'.op \in {"GroceryItem", "add_item"} =>
          LET item == call'.arg
          IN  /\ call'.op = "GroceryItem" <=> Invalid(item)
              /\ call'.op = "GroceryItem" =>
                    /\ call'.ret = "ValueError"
                    /\ items' = items /\ seq' = seq
                    /\ item.quantity <= 0 => call'.error = "Quantity must be positive"
                    /\ (item.quantity > 0 /\ item.price_per_unit < 0) =>
                          call'.error = "Price per unit cannot be negative"
                    /\ (item.quantity > 0 /\ item.price_per_unit >= 0
                        /\ Blank(item.name)) =>
                          call'.error = "Item name cannot be empty"
                    /\ (item.quantity > 0 /\ item.price_per_unit >= 0
                        /\ ~Blank(item.name) /\ Blank(item.category)) =>
                          call'.error = "Category cannot be empty"
                    /\ (item.quantity > 0 /\ item.price_per_unit >= 0
                        /\ ~Blank(item.name) /\ ~Blank(item.category)
                        /\ Blank(item.unit)) =>
                          call'.error = "Unit cannot be empty"
                    /\ (item.quantity > 0 /\ item.price_per_unit >= 0
                        /\ ~Blank(item.name) /\ ~Blank(item.category)
                        /\ ~Blank(item.unit)) =>
                          call'.error = "Store name cannot be empty"
              /\ call'.op = "add_item" => items'[call'.ret] = item ]_vars

\* the constructor has refused an item with quantity 0, a negative price
\* and a blank name, reporting the quantity, while an item with price 0 is
\* stored
C18_Witness ==
    /\ call.op = "GroceryItem"
    /\ call.arg.quantity = 0
    /\ call.arg.price_per_unit < 0
    /\ Blank(call.arg.name)
    /\ call.error = "Quantity must be positive"
    /\ \E i \in DOMAIN items : items[i].price_per_unit = 0

\* --------------------------------------------------------------- C19
\* C19: set_weekly_budget and set_monthly_budget called with a negative
\* amount raise ValueError and leave budget_settings as it was; called with
\* 0 they return True and the budget they set reads 0; and in every state
\* the weekly and the monthly budget, as stored and as read, are >= 0.
C19_NoNegativeBudget ==
    /\ [](/\ get_weekly_budget >= 0
          /\ get_monthly_budget >= 0
          /\ \A n \in 1..Len(budget_settings) :
                /\ budget_settings[n].weekly_budget >= 0
                /\ budget_settings[n].monthly_budget >= 0)
    /\ [][ call'.op \in {"set_weekly_budget", "set_monthly_budget"} =>
              /\ call'.arg < 0 =>
                    /\ call'.ret = "ValueError"
                    /\ budget_settings' = budget_settings
              /\ call'.arg >= 0 => call'.ret = "True"
              /\ (call'.arg = 0 /\ call'.op = "set_weekly_budget") =>
                    get_weekly_budget' = 0
              /\ (call'.arg = 0 /\ call'.op = "set_monthly_budget") =>
                    get_monthly_budget' = 0 ]_vars

\* set_weekly_budget has refused a negative amount while a weekly budget
\* set earlier is still stored
C19_Witness ==
    /\ call.op = "set_weekly_budget"
    /\ call.arg < 0
    /\ call.ret = "ValueError"
    /\ get_weekly_budget > 0

\* --------------------------------------------------------------- C20
\* the ids add_item has handed out whose rows are gone
Deleted == (1..seq) \ DOMAIN items

\* C20: in every state every stored id is one that add_item handed out,
\* get_item_by_id of a deleted id is None and the month's spending counts
\* the stored rows only; and in every step: delete_item returns True
\* exactly when the row is stored and removes that row and no other; no
\* step brings a deleted id back; update_item and the two mark operations
\* on an id that is not stored return False and change no row; add_item
\* returns an id never handed out before.
C20_DeletionIrreversible ==
    /\ [](/\ DOMAIN items \subseteq 1..seq
          /\ \A id \in Deleted : get_item_by_id(id).ret = "None"
          /\ get_monthly_spending(Jan15).value = CostOf(BoughtInMonth(Jan15)))
    /\ [][ /\ call'.op = "delete_item" =>
                 /\ call'.ret = "True" <=> call'.arg \in DOMAIN items
                 /\ DOMAIN items' = DOMAIN items \ {call'.arg}
                 /\ \A i \in DOMAIN items' : items'[i] = items[i]
           /\ \A id \in Deleted : id \notin DOMAIN items'
           /\ (call'.op \in {"update_item", "mark_as_purchased", "mark_as_unpurchased"}
               /\ call'.ret # "ValueError" /\ call'.arg \notin DOMAIN items) =>
                 /\ call'.ret = "False"
                 /\ items' = items
           /\ call'.op = "add_item" =>
                 /\ call'.ret \notin 1..seq
                 /\ call'.ret \in DOMAIN items' ]_vars

\* add_item has returned id 2 after the row with id 1 was deleted
C20_Witness ==
    /\ call.op = "add_item"
    /\ call.ret = 2
    /\ 1 \in Deleted
    /\ 2 \in DOMAIN items

\* --------------------------------------------------------------- C21
\* C21: for every valid date d, get_week_start_date(d) returns a date that
\* is a Monday, lies at most 6 days before d and never after it, is the week
\* start of each of the seven days from it on (whatever month or year they
\* are in), and is its own week start.
C21_WeekStart ==
    (call.op = "get_week_start_date" /\ validate_date(call.arg)) =>
        /\ ~call.ret.raised
        /\ validate_date(call.ret.value)
        /\ LET d == strptime(call.arg).date
               ws == strptime(call.ret.value).date
           IN  /\ weekday(ws) = 0
               /\ toordinal(ws) <= toordinal(d)
               /\ toordinal(d) <= toordinal(ws) + 6
               /\ get_week_start_date(call.ret.value) = call.ret
               /\ \A k \in 0..6 :
                     LET day == PlusDays(ws, k)
                     IN  day[1] <= 9999 =>
                             get_week_start_date(iso(day[1], day[2], day[3]))
                                 = call.ret

\* --------------------------------------------------------------- C22
\* C22: for every valid date d, utils.get_month_end_date(d) returns the last
\* calendar day of d's month (day 28 or 29 in February by the leap-year
\* rule, 30 or 31 otherwise, 31 December of the same year), and the month
\* end the monthly queries compute inline is that same date.
C22_MonthEnd ==
    (call.op = "get_month_end_date" /\ validate_date(call.arg)) =>
        LET d == strptime(call.arg).date
            last == IF d[2] = 2
                    THEN (IF d[1] % 4 = 0 /\ (d[1] % 100 # 0 \/ d[1] % 400 = 0)
                          THEN 29 ELSE 28)
                    ELSE IF d[2] \in {4, 6, 9, 11} THEN 30 ELSE 31
        IN  /\ ~call.ret.raised
            /\ call.ret.value = iso(d[1], d[2], last)
            /\ ~month_window_raises(call.arg)
            /\ month_end_of(call.arg) = call.ret.value

\* --------------------------------------------------------------- C23
\* C23: the two budget setters reach a state in which the weekly and the
\* monthly budget are both > 0, the state get_budget_alerts needs to return
\* a weekly alert: an accepted set_weekly_budget(w) with w > 0 made while
\* the monthly budget is > 0, and an accepted set_monthly_budget(m) with
\* m > 0 made while the weekly budget is > 0, each leave both budgets > 0.
C23_WeeklyAlertReachable ==
    [][ /\ (call'.op = "set_weekly_budget" /\ call'.ret = "True"
            /\ call'.arg > 0 /\ get_monthly_budget > 0)
            => (get_weekly_budget' > 0 /\ get_monthly_budget' > 0)
        /\ (call'.op = "set_monthly_budget" /\ call'.ret = "True"
            /\ call'.arg > 0 /\ get_weekly_budget > 0)
            => (get_weekly_budget' > 0 /\ get_monthly_budget' > 0) ]_vars

\* what the program does instead: in no reachable state are both budgets
\* > 0, and no list returned by get_budget_alerts holds a weekly alert
C23_NoWeeklyAlert ==
    /\ ~(get_weekly_budget > 0 /\ get_monthly_budget > 0)
    /\ call.op = "get_budget_alerts" =>
           AlertsOf(call.ret.value, "Weekly budget") = {}

\* --------------------------------------------------------------- C24
\* C24: after any sequence of writes that returned without error,
\* get_all_items returns one GroceryItem per stored row and
\* get_item_by_id returns the item of every stored id, neither raising.
C24_ReadsNeverFail ==
    /\ ~get_all_items.raised
    /\ Cardinality(get_all_items.value) = Cardinality(DOMAIN items)
    /\ \A i \in DOMAIN items :
          /\ get_item_by_id(i).ret = "item"
          /\ get_item_by_id(i).item = items[i]

\* --------------------------------------------------------------- C25
\* C25: the list returned by get_budget_alerts holds at most one monthly
\* alert, then at most one weekly alert, then at most one suggestion, and
\* nothing else: at most 3 alerts, and never a warning together with an
\* exceeded alert for one period.
C25_AlertsBounded ==
    call.op = "get_budget_alerts" =>
        LET alerts == call.ret.value
            monthly == AlertsOf(alerts, "Monthly budget")
            weekly == AlertsOf(alerts, "Weekly budget")
            suggestion == { n \in 1..Len(alerts) :
                              alerts[n].alert_type = "suggestion" }
        IN  /\ Cardinality(monthly) <= 1
            /\ Cardinality(weekly) <= 1
            /\ Cardinality(suggestion) <= 1
            /\ monthly \cup weekly \cup suggestion = 1..Len(alerts)
            /\ Len(alerts) <= 3
            /\ \A m \in monthly : \A n \in weekly \cup suggestion : m < n
            /\ \A w \in weekly : \A n \in suggestion : w < n
            /\ \A n \in monthly \cup weekly :
                  alerts[n].alert_type \in {"warning", "exceeded"}

\* get_budget_alerts has returned a monthly alert followed by the suggestion
C25_Witness ==
    /\ call.op = "get_budget_alerts"
    /\ Len(call.ret.value) = 2
    /\ call.ret.value[1].message = "Monthly budget"
    /\ call.ret.value[2].alert_type = "suggestion"

\* --------------------------------------------------------------- C26
\* C26: a step of update_item for a stored id returns True, leaves that row
\* equal to the given item in every field, and leaves every other row, the
\* set of ids and the budgets as they were; for an id that is not stored it
\* returns False and nothing changes; for an item without id (0) it raises
\* and nothing changes.
C26_UpdateReplaces ==
    [][ call'.op = "update_item" =>
          /\ budget_settings' = budget_settings
          /\ seq' = seq
          /\ DOMAIN items' = DOMAIN items
          /\ \A i \in DOMAIN items : i # call'.arg => items'[i] = items[i]
          /\ call'.arg \in DOMAIN items =>
                 (call'.ret = "True" /\ items'[call'.arg] = call'.item)
          /\ (call'.arg # 0 /\ call'.arg \notin DOMAIN items) =>
                 (call'.ret = "False" /\ items' = items)
          /\ call'.arg = 0 => (call'.ret = "ValueError" /\ items' = items) ]_vars

\* update_item has replaced a row by a purchased item with another unit and
\* note, beside another row and a monthly budget
C26_Witness ==
    /\ call.op = "update_item"
    /\ call.ret = "True"
    /\ items[call.arg] = call.item
    /\ call.item.is_purchased
    /\ call.item.notes = "organic"
    /\ \E i \in DOMAIN items : items[i] # call.item
    /\ get_monthly_budget > 0

\* --------------------------------------------------------------- C27
\* C27: a step of mark_as_purchased(id, date) on a stored id returns True
\* and changes that row to purchased with the given date, whatever it held;
\* a step of mark_as_unpurchased(id) on a stored id returns True and changes
\* that row to unpurchased with purchase_date ''; neither changes another
\* field, another row or the budgets; on an id that is not stored both
\* return False and change nothing; and marking then unmarking a stored
\* unpurchased row gives the row back as it was.
C27_MarkUnmark ==
    [][ /\ call'.op \in {"mark_as_purchased", "mark_as_unpurchased"} =>
              /\ budget_settings' = budget_settings
              /\ seq' = seq
              /\ DOMAIN items' = DOMAIN items
              /\ \A i \in DOMAIN items : i # call'.arg => items'[i] = items[i]
              /\ call'.ret = (IF call'.arg \in DOMAIN items THEN "True" ELSE "False")
        /\ (call'.op = "mark_as_purchased" /\ call'.arg \in DOMAIN items) =>
              items'[call'.arg] =
                  [items[call'.arg] EXCEPT !.is_purchased = TRUE,
                                           !.purchase_date = call'.purchase_date]
        /\ (call'.op = "mark_as_unpurchased" /\ call'.arg \in DOMAIN items) =>
              items'[call'.arg] =
                  [items[call'.arg] EXCEPT !.is_purchased = FALSE,
                                           !.purchase_date = NoDate]
        /\ \A i \in DOMAIN items' : \A d \in {Jan15, Feb01} :
              ~items'[i].is_purchased =>
                  unpurchased_row(purchased_row(items'[i], d)) = items'[i] ]_vars

\* --------------------------------------------------------------- C28
\* C28: in every entry returned by get_store_comparison, cheapest_store and
\* most_expensive_store are two different stores.
C28_DistinctStores ==
    call.op = "get_store_comparison" =>
        \A e \in call.ret.value : e.cheapest_store # e.most_expensive_store

\* --------------------------------------------------------------- C29
\* C29: when get_expense_summary has returned for a valid date whose month
\* has purchased rows, most_expensive_cost is the largest and cheapest_cost
\* the smallest quantity * price_per_unit among them, most_expensive_item
\* and cheapest_item are names of rows with those costs, total_items is the
\* number of the rows and cheapest_cost <= average_item_cost <=
\* most_expensive_cost; for a month without purchased rows both names are
\* '' and total_spent, total_items, average_item_cost and both costs are 0.
C29_SummaryExtrema ==
    (call.op = "get_expense_summary" /\ validate_date(call.arg)) =>
        LET ids == BoughtInMonth(call.arg)
            r == call.ret
        IN  /\ ~r.raised
            /\ r.total_items = Cardinality(ids)
            /\ ids # {} =>
                  /\ \A i \in ids : total_cost(items[i]) <= r.most_expensive_cost
                  /\ \A i \in ids : total_cost(items[i]) >= r.cheapest_cost
                  /\ \E i \in ids : /\ items[i].name = r.most_expensive_item
                                    /\ total_cost(items[i]) = r.most_expensive_cost
                  /\ \E i \in ids : /\ items[i].name = r.cheapest_item
                                    /\ total_cost(items[i]) = r.cheapest_cost
                  /\ r.average_item_cost.den > 0
                  /\ r.cheapest_cost * r.average_item_cost.den
                         <= r.average_item_cost.num
                  /\ r.average_item_cost.num
                         <= r.most_expensive_cost * r.average_item_cost.den
            /\ ids = {} =>
                  /\ r.most_expensive_item = "" /\ r.cheapest_item = ""
                  /\ r.total_spent = 0
                  /\ RatEq(r.average_item_cost, Zero)
                  /\ r.most_expensive_cost = 0 /\ r.cheapest_cost = 0

\* get_expense_summary has returned for a month with two purchased rows of
\* different names and costs, beside a row of another month
C29_Witness ==
    /\ call.op = "get_expense_summary"
    /\ validate_date(call.arg)
    /\ Cardinality(BoughtInMonth(call.arg)) = 2
    /\ call.ret.most_expensive_item # call.ret.cheapest_item
    /\ call.ret.most_expensive_cost > call.ret.cheapest_cost

\* get_expense_summary has returned for a month without purchased rows
\* while another month has one
C29_WitnessEmpty ==
    /\ call.op = "get_expense_summary"
    /\ validate_date(call.arg)
    /\ BoughtInMonth(call.arg) = {}
    /\ \E i \in DOMAIN items : items[i].is_purchased
    /\ call.ret.most_expensive_item = ""

\* --------------------------------------------------------------- C30
\* C30: in the lists returned by get_spending_by_category and
\* get_spending_by_store, each entry's total_spent is >= the total_spent of
\* the entry that follows it.
C30_OrderedByTotal ==
    (call.op \in {"get_spending_by_category", "get_spending_by_store"}
     /\ ~call.ret.raised) =>
        \A n \in 1..(Len(call.ret.value) - 1) :
            call.ret.value[n].total_spent >= call.ret.value[n + 1].total_spent

\* a grouping query has returned two groups, the first with the larger total
C30_Witness ==
    /\ call.op \in {"get_spending_by_category", "get_spending_by_store"}
    /\ ~call.ret.raised
    /\ Len(call.ret.value) = 2
    /\ call.ret.value[1].total_spent > call.ret.value[2].total_spent

====
